---- MODULE Spec2Model ----
(***************************************************************************)
(* A state-machine model of the caching and validation subsystem of        *)
(* stagehand-glm:                                                          *)
(*   - StagehandCache (src/stagehand/cache.py): the selector cache with    *)
(*     its in-memory mirror, its durable map and its backing file;         *)
(*   - ObserveHandler.observe (src/stagehand/handlers/observe_handler.py): *)
(*     the hit/miss protocol around the model call;                        *)
(*   - Agent.execute (src/stagehand/agent/agent.py): the replay of a       *)
(*     cached action sequence and the fallback to a fresh model run.       *)
(*                                                                         *)
(* Text is a sequence of one-character strings, so that strip() and        *)
(* lower() are computed.  A Python dict is a function whose DOMAIN is the  *)
(* set of keys present; a missing key is a key outside the DOMAIN.         *)
(* Python None is the empty tuple, a present optional value v is <<v>>.    *)
(***************************************************************************)
EXTENDS Integers, Sequences, FiniteSets, TLC

\* ------------------------------------------------------------------ bounds
\* The clock runs from 0 to MaxTime.
MaxTime == 3
\* Each behaviour performs at most MaxOps operations (clock ticks included).
MaxOps == 4

\* ------------------------------------------------------------- Python values
None == <<>>
Some(x) == <<x>>

\* dict.get(f): the value, or None when the key is missing.
DictGet(d, f) == IF f \in DOMAIN d THEN d[f] ELSE None
\* d[k] = v
Put(d, k, v) == [x \in (DOMAIN d) \cup {k} |-> IF x = k THEN v ELSE d[x]]
\* del d[k]
Del(d, k) == [x \in (DOMAIN d) \ {k} |-> d[x]]
EmptyDict == [x \in {} |-> None]
\* d without the keys of ks.
DelAll(d, ks) == [x \in (DOMAIN d) \ ks |-> d[x]]

\* ----------------------------------------------------------------- strings
\* A text is a sequence of characters.  A character is a string of length
\* one; a character that a string cannot show is named by its code point,
\* as in "U+000B".  The texts are over Latin-1 and the characters
\* named below.

\* str.isspace() of one character: the characters str.strip() removes.
IsSpace(c) ==
    c \in { "\t", "\n", "U+000B", "\f", "\r", "U+001C",
            "U+001D", "U+001E", "U+001F", " ", "U+0085", "U+00A0",
            "U+1680", "U+2000", "U+2001", "U+2002", "U+2003", "U+2004",
            "U+2005", "U+2006", "U+2007", "U+2008", "U+2009", "U+200A",
            "U+2028", "U+2029", "U+202F", "U+205F", "U+3000" }

RECURSIVE LStrip(_)
LStrip(s) == IF s # <<>> /\ IsSpace(Head(s)) THEN LStrip(Tail(s)) ELSE s

RECURSIVE RStrip(_)
RStrip(s) ==
    IF s # <<>> /\ IsSpace(s[Len(s)]) THEN RStrip(SubSeq(s, 1, Len(s) - 1)) ELSE s

\* str.strip()
Strip(s) == RStrip(LStrip(s))

\* str.lower() on one character: the text an upper-case letter becomes, of
\* one character or, for U+0130, of two; any other character is kept.
LowerChar(c) ==
    LET lower ==
        "A" :> <<"a">> @@ "B" :> <<"b">> @@ "C" :> <<"c">> @@ "D" :> <<"d">> @@
        "E" :> <<"e">> @@ "F" :> <<"f">> @@ "G" :> <<"g">> @@ "H" :> <<"h">> @@
        "I" :> <<"i">> @@ "J" :> <<"j">> @@ "K" :> <<"k">> @@ "L" :> <<"l">> @@
        "M" :> <<"m">> @@ "N" :> <<"n">> @@ "O" :> <<"o">> @@ "P" :> <<"p">> @@
        "Q" :> <<"q">> @@ "R" :> <<"r">> @@ "S" :> <<"s">> @@ "T" :> <<"t">> @@
        "U" :> <<"u">> @@ "V" :> <<"v">> @@ "W" :> <<"w">> @@ "X" :> <<"x">> @@
        "Y" :> <<"y">> @@ "Z" :> <<"z">> @@ "À" :> <<"à">> @@ "Á" :> <<"á">> @@
        "Â" :> <<"â">> @@ "Ã" :> <<"ã">> @@ "Ä" :> <<"ä">> @@ "Å" :> <<"å">> @@
        "Æ" :> <<"æ">> @@ "Ç" :> <<"ç">> @@ "È" :> <<"è">> @@ "É" :> <<"é">> @@
        "Ê" :> <<"ê">> @@ "Ë" :> <<"ë">> @@ "Ì" :> <<"ì">> @@ "Í" :> <<"í">> @@
        "Î" :> <<"î">> @@ "Ï" :> <<"ï">> @@ "Ð" :> <<"ð">> @@ "Ñ" :> <<"ñ">> @@
        "Ò" :> <<"ò">> @@ "Ó" :> <<"ó">> @@ "Ô" :> <<"ô">> @@ "Õ" :> <<"õ">> @@
        "Ö" :> <<"ö">> @@ "Ø" :> <<"ø">> @@ "Ù" :> <<"ù">> @@ "Ú" :> <<"ú">> @@
        "Û" :> <<"û">> @@ "Ü" :> <<"ü">> @@ "Ý" :> <<"ý">> @@ "Þ" :> <<"þ">> @@
        "U+0130" :> <<"i", "U+0307">>
    IN  IF c \in DOMAIN lower THEN lower[c] ELSE <<c>>

\* str.lower()
RECURSIVE Lower(_)
Lower(s) == IF s = <<>> THEN <<>> ELSE LowerChar(Head(s)) \o Lower(Tail(s))

\* ------------------------------------------------------------------- time
\* datetime.isoformat(): the text of a time; datetime.fromisoformat parses it
\* back and raises ValueError on any other text.
isoformat(t) == <<"iso", t>>
NotADate == <<"bad", 0>>
IsIsoText(s) == Len(s) = 2 /\ s[1] = "iso"
fromisoformat(s) == s[2]

\* ------------------------------------------------------ StagehandCache keys
\* The MD5 digest of the serialized triple is modelled by the triple itself:
\* equal triples give equal keys and the digest's collisions are left out.
generate_cache_key_nolower(instruction, page_url, page_title) ==
    << Strip(instruction), page_url,
       IF page_title = None THEN <<>> ELSE page_title[1] >>

generate_cache_key(instruction, page_url, page_title) ==
    << Lower(Strip(instruction)), page_url,
       IF page_title = None \/ page_title = Some(<<>>) THEN <<>> ELSE page_title[1] >>

\* ---------------------------------------------------------- validity check
is_cache_valid_inclusive(cached_item, ttl, t) ==
    /\ "created_at" \in DOMAIN cached_item
    /\ IsIsoText(cached_item["created_at"])
    /\ t - fromisoformat(cached_item["created_at"]) <= ttl

\* _is_cache_valid: any exception (missing key, unparsable text) gives False.
is_cache_valid(cached_item, ttl, t) ==
    /\ "created_at" \in DOMAIN cached_item
    /\ IsIsoText(cached_item["created_at"])
    /\ t - fromisoformat(cached_item["created_at"]) < ttl

\* ------------------------------------------------------------ ObserveResult
ObserveResult(selector, description, method, arguments, backend_node_id) ==
    [ selector |-> selector, description |-> description, method |-> method,
      arguments |-> arguments, backend_node_id |-> backend_node_id ]

\* Whether ObserveResult(...) can be built from the cached dict: the two
\* subscripted keys must be present (KeyError otherwise).
can_create_observe_result(cached_result) ==
    /\ "selector" \in DOMAIN cached_result
    /\ "description" \in DOMAIN cached_result

create_observe_result_dropping_node_id(cached_result) ==
    ObserveResult(cached_result["selector"], cached_result["description"],
                  DictGet(cached_result, "method"),
                  DictGet(cached_result, "arguments"), None)

create_observe_result_from_cache(cached_result) ==
    ObserveResult(cached_result["selector"], cached_result["description"],
                  DictGet(cached_result, "method"),
                  DictGet(cached_result, "arguments"),
                  DictGet(cached_result, "backend_node_id"))

\* ------------------------------------------------------ the cache's state
\* A cache state st is [mem, dur, shared, file] and the fields of Storage:
\*   mem     self._memory_cache
\*   dur     self.cache_data["caches"]
\*   shared  the keys whose entry in mem and in dur is one and the same dict
\*           object (set_cache and the file hit put one object in both)
\*   file    the "caches" object of the backing file as last written
CacheState(mem, dur, shared, file) ==
    [mem |-> mem, dur |-> dur, shared |-> shared, file |-> file]

\* The rest of a cache state:
\*   meta        "version" and "created_at" of self.cache_data
\*   file_meta   the same two fields of the backing file
\*   file_state  "absent", "ok" (it parses) or "corrupt" (it does not)
\*   disk        what a write of the file does during the operation: "ok",
\*               "fail" (open raises, the file is as before) or "torn"
\*               (json.dump raises after open has truncated the file)
Storage(meta, file_meta, file_state, disk) ==
    [meta |-> meta, file_meta |-> file_meta, file_state |-> file_state, disk |-> disk]

DiskOutcomes == {"ok", "fail", "torn"}

\* The default structure of _load_cache, built at time t.
DefaultMeta(t) == [version |-> "1.0", created_at |-> isoformat(t)]

\* The metadata of a file that does not exist.
NoFileMeta == [version |-> "none", created_at |-> NotADate]

save_cache_undoing(st) ==
    IF st.disk = "ok"
    THEN [st EXCEPT !.file = st.dur, !.file_meta = st.meta, !.file_state = "ok"]
    ELSE [st EXCEPT !.dur = st.file, !.mem = DelAll(st.mem, DOMAIN st.mem \ DOMAIN st.file)]

\* _save_cache: the whole of cache_data is written to the backing file; an
\* exception of open or json.dump is logged and goes no further.  (The
\* "last_updated" stamp it also sets is no part of the state modelled.)
save_cache(st) ==
    IF st.disk = "ok"
    THEN [st EXCEPT !.file = st.dur, !.file_meta = st.meta, !.file_state = "ok"]
    ELSE IF st.disk = "torn"
    THEN [st EXCEPT !.file_state = "corrupt"]
    ELSE st

\* item["hit_count"] += 1; item["last_used"] = now
BumpItem(item, t) ==
    Put(Put(item, "hit_count", item["hit_count"] + 1), "last_used", isoformat(t))

\* The first half of _update_cache_stats: the entry of the in-memory mirror.
UpdateMemStats(st, k, t) ==
    IF k \notin DOMAIN st.mem THEN [st |-> st, raised |-> FALSE]
    ELSE IF "hit_count" \notin DOMAIN st.mem[k] THEN [st |-> st, raised |-> TRUE]
    ELSE LET item == BumpItem(st.mem[k], t)
         IN  [ st |-> [st EXCEPT !.mem = Put(st.mem, k, item),
                                 !.dur = IF k \in st.shared
                                         THEN Put(st.dur, k, item) ELSE st.dur],
               raised |-> FALSE ]

\* The second half of _update_cache_stats: the entry of the durable map.
UpdateDurStats(st, k, t) ==
    IF k \notin DOMAIN st.dur THEN [st |-> st, raised |-> FALSE]
    ELSE IF "hit_count" \notin DOMAIN st.dur[k] THEN [st |-> st, raised |-> TRUE]
    ELSE LET item == BumpItem(st.dur[k], t)
         IN  [ st |-> [st EXCEPT !.dur = Put(st.dur, k, item),
                                 !.mem = IF k \in st.shared
                                         THEN Put(st.mem, k, item) ELSE st.mem],
               raised |-> FALSE ]

\* _update_cache_stats(cache_key, hit=True): both layers are bumped, one
\* after the other; a missing hit_count raises KeyError where it is met.
update_cache_stats(st, k, t) ==
    LET m == UpdateMemStats(st, k, t)
    IN  IF m.raised THEN m ELSE UpdateDurStats(m.st, k, t)

\* What get_cached_result gives back.
Hit(r) == [kind |-> "hit", result |-> r]
Miss == [kind |-> "miss"]
Raised == [kind |-> "raise"]

\* The end of a hit: the statistics, then the ObserveResult built from
\* cached_item["result"].
FinishHit(st, k, t) ==
    LET u == update_cache_stats(st, k, t)
        item == u.st.mem[k]
    IN  IF u.raised THEN [st |-> u.st, ret |-> Raised]
        ELSE IF "result" \notin DOMAIN item THEN [st |-> u.st, ret |-> Raised]
        ELSE IF ~can_create_observe_result(item["result"])
             THEN [st |-> u.st, ret |-> Raised]
        ELSE [st |-> u.st, ret |-> Hit(create_observe_result_from_cache(item["result"]))]

LookupDurable_saving(st, k, ttl, t) ==
    IF k \notin DOMAIN st.dur THEN [st |-> save_cache(st), ret |-> Miss]
    ELSE IF is_cache_valid(st.dur[k], ttl, t)
         THEN FinishHit([st EXCEPT !.mem = Put(st.mem, k, st.dur[k]),
                                   !.shared = st.shared \cup {k}], k, t)
         ELSE [ st |-> save_cache([st EXCEPT !.dur = Del(st.dur, k),
                                             !.shared = st.shared \ {k}]),
                ret |-> Miss ]

\* The second half of get_cached_result: the durable map.
LookupDurable(st, k, ttl, t) ==
    IF k \notin DOMAIN st.dur THEN [st |-> st, ret |-> Miss]
    ELSE IF is_cache_valid(st.dur[k], ttl, t)
         THEN FinishHit([st EXCEPT !.mem = Put(st.mem, k, st.dur[k]),
                                   !.shared = st.shared \cup {k}], k, t)
         ELSE [ st |-> save_cache([st EXCEPT !.dur = Del(st.dur, k),
                                             !.shared = st.shared \ {k}]),
                ret |-> Miss ]

\* get_cached_result(instruction, page_url, page_title, ttl) at time t.
get_cached_result(st, instruction, page_url, page_title, ttl, t) ==
    LET k == generate_cache_key(instruction, page_url, page_title)
    IN  IF k \in DOMAIN st.mem /\ is_cache_valid(st.mem[k], ttl, t)
        THEN FinishHit(st, k, t)
        ELSE LookupDurable(st, k, ttl, t)

set_cache_first_wins(st, instruction, page_url, result, page_title, t) ==
    LET k == generate_cache_key(instruction, page_url, page_title)
        cache_item ==
            [ instruction |-> instruction,
              page_url |-> page_url,
              page_title |-> IF page_title = None THEN <<>> ELSE page_title[1],
              result |-> [ selector |-> result.selector,
                           description |-> result.description,
                           method |-> result.method,
                           arguments |-> result.arguments,
                           backend_node_id |-> result.backend_node_id ],
              created_at |-> isoformat(t),
              last_used |-> isoformat(t),
              hit_count |-> 0 ]
    IN  IF k \in DOMAIN st.dur THEN save_cache(st)
        ELSE save_cache([st EXCEPT !.mem = Put(st.mem, k, cache_item),
                                   !.dur = Put(st.dur, k, cache_item),
                                   !.shared = st.shared \cup {k}])

\* set_cache(instruction, page_url, result, page_title) at time t.
set_cache(st, instruction, page_url, result, page_title, t) ==
    LET k == generate_cache_key(instruction, page_url, page_title)
        cache_item ==
            [ instruction |-> instruction,
              page_url |-> page_url,
              page_title |-> IF page_title = None THEN <<>> ELSE page_title[1],
              result |-> [ selector |-> result.selector,
                           description |-> result.description,
                           method |-> result.method,
                           arguments |-> result.arguments,
                           backend_node_id |-> result.backend_node_id ],
              created_at |-> isoformat(t),
              last_used |-> isoformat(t),
              hit_count |-> 0 ]
    IN  save_cache([st EXCEPT !.mem = Put(st.mem, k, cache_item),
                              !.dur = Put(st.dur, k, cache_item),
                              !.shared = st.shared \cup {k}])

\* ------------------------------------------------------------ input values
InstrA == <<"a">>
InstrA2 == <<"\t", "A", " ">>
InstrB == <<"b">>
Url1 == <<"u">>
Url2 == <<"v">>
Title1 == <<"t">>

Request(instruction, page_url, page_title) ==
    [instruction |-> instruction, page_url |-> page_url, page_title |-> page_title]

\* The requests of the cache operations: two that differ only in case and
\* surrounding blanks and in None against "" as the title, one with another
\* instruction, one on another page, one with another title.
Requests ==
    { Request(InstrA, Url1, None), Request(InstrA2, Url1, Some(<<>>)),
      Request(InstrB, Url1, None), Request(InstrA, Url2, None),
      Request(InstrA, Url1, Some(Title1)) }

KeyOf(req) == generate_cache_key(req.instruction, req.page_url, req.page_title)

\* A selector is a sequence of tokens: the "xpath=" prefix and the path.
Result1 == ObserveResult(<<"xpath=", "//input">>, <<"d">>, None, None, None)
Result2 == ObserveResult(<<"xpath=", "//button">>, <<"é">>, Some("click"),
                         Some(<<"x">>), Some(7))
Results == {Result1, Result2}

TTLs == {1, 2}

\* ---------------------------------------------------------------- variables
VARIABLES
    memory_cache,   \* StagehandCache._memory_cache
    caches,         \* StagehandCache.cache_data["caches"]
    shared,         \* keys whose mirror entry and durable entry are one object
    file_caches,    \* the "caches" object of the backing file
    now,            \* datetime.now()
    ops,            \* operations performed so far
    last,           \* the last operation: its inputs and what it returned
    evicted,        \* keys a lookup found expired and deleted, not stored since
    cache_meta,     \* "version" and "created_at" of StagehandCache.cache_data
    file_meta,      \* the same fields of the backing file
    file_state      \* the backing file: "absent", "ok" or "corrupt"

cache_vars ==
    << memory_cache, caches, shared, file_caches, now, ops, last, evicted,
       cache_meta, file_meta, file_state >>

VARIABLES
    agent_cache,    \* Agent.cache: the stored action sequences
    pc,             \* where the execute of each task stands: "idle", "replay",
                    \* "run_task", "save"
    cur,            \* the locals of the running (or last) execute of each task
    replay_log,     \* the cached actions performed by that execute, in order
    agent_result,   \* what the last finished execute of each task returned
    executes,       \* calls of execute so far
    failed_ids      \* the cache entries whose replay has failed

agent_vars == <<agent_cache, pc, cur, replay_log, agent_result, executes, failed_ids>>

VARIABLE obs       \* the observe call of each task: where it stands, its locals

observe_vars == <<obs>>

\* A second StagehandCache built on the same file: its mirror, its durable
\* map and the head of its cache_data.
VARIABLE peer

\* The file export_cache writes and import_cache reads.
VARIABLE export_file

peer_vars == <<peer, export_file>>

vars == <<cache_vars, agent_vars, observe_vars, peer_vars>>

\* The cache as an operation finds it, when its writes of the file succeed.
State ==
    CacheState(memory_cache, caches, shared, file_caches)
        @@ Storage(cache_meta, file_meta, file_state, "ok")

\* The same, when the writes of the operation end as disk says.
StateOn(disk) == [State EXCEPT !.disk = disk]

SetState(st) ==
    /\ memory_cache' = st.mem
    /\ caches' = st.dur
    /\ shared' = st.shared
    /\ file_caches' = st.file
    /\ cache_meta' = st.meta
    /\ file_meta' = st.file_meta
    /\ file_state' = st.file_state

\* The keys a lookup of k deleted from the durable map, added to ev.
EvictedBy(ev, before, after, k) ==
    IF k \in DOMAIN before.dur /\ k \notin DOMAIN after.dur THEN ev \cup {k} ELSE ev

\* StagehandCache.__init__ with no backing file: _load_cache gives the
\* default structure and the mirror is empty.
InitCache ==
    /\ memory_cache = EmptyDict
    /\ caches = EmptyDict
    /\ shared = {}
    /\ file_caches = EmptyDict
    /\ now = 0
    /\ ops = 0
    /\ last = [op |-> "init", seq |-> 0]
    /\ evicted = {}
    /\ cache_meta = DefaultMeta(0)
    /\ file_meta = NoFileMeta
    /\ file_state = "absent"

\* The coroutines of one event loop that can be inside observe, or inside
\* execute, at the same time.
Tasks == {1, 2}

\* No execute has been called: the locals of execute, with what the task
\* waits for inside the replay ("perform" or "sleep") and the result of the
\* action it performed last.
NoLocals ==
    [ instruction |-> <<>>, execute |-> 0,
      cached_actions |-> None, entry_id |-> 0, executable |-> <<>>, i |-> 0,
      waits |-> "none", action_result |-> None,
      delays |-> 0, fallback |-> "none", runs |-> 0, run |-> [kind |-> "none"] ]

\* No task is inside execute.
NoExecutes ==
    /\ pc = [t \in Tasks |-> "idle"]
    /\ cur = [t \in Tasks |-> NoLocals]
    /\ replay_log = [t \in Tasks |-> <<>>]
    /\ agent_result = [t \in Tasks |-> [kind |-> "none"]]
    /\ executes = 0
    /\ failed_ids = {}

\* An Agent built without the cache option: no agent cache, nothing running.
InitNoAgent == agent_cache = EmptyDict /\ NoExecutes

\* No second cache is built.
NoPeer == [mem |-> EmptyDict, dur |-> EmptyDict, shared |-> {}, meta |-> DefaultMeta(0)]

\* No file was exported.
NoExport == [kind |-> "absent", caches |-> EmptyDict]

InitNoPeer == peer = NoPeer /\ export_file = NoExport

\* No observe request is in flight in a task.  Of a call that returned the
\* record keeps the arguments, the outcome of the lookup and what was
\* returned; driver is the answer an awaited selector check will get, entry
\* the entry under the key when the call began.
NoObserve ==
    [ pc |-> "idle", req |-> Request(<<>>, <<>>, None), use_cache |-> TRUE,
      draw_overlay |-> FALSE, driver |-> "none", entry |-> None, cached |-> None, lookup |-> "none",
      ret |-> [kind |-> "none"], model_calls |-> 0, answer |-> <<>>,
      stored |-> FALSE ]

InitNoObserve == obs = [t \in Tasks |-> NoObserve]

Init == InitCache /\ InitNoAgent /\ InitNoObserve /\ InitNoPeer

\* Time passes between two operations.
Tick ==
    /\ ops < MaxOps
    /\ now < MaxTime
    /\ now' = now + 1
    /\ ops' = ops + 1
    /\ UNCHANGED <<memory_cache, caches, shared, file_caches, last, evicted>>
    /\ UNCHANGED <<cache_meta, file_meta, file_state>>
    /\ UNCHANGED <<agent_vars, observe_vars>>
    /\ UNCHANGED peer_vars

SetCache ==
    /\ ops < MaxOps
    /\ \E req \in Requests, result \in Results :
          /\ SetState(set_cache(State, req.instruction, req.page_url, result,
                                req.page_title, now))
          /\ last' = [op |-> "set_cache", seq |-> ops + 1, req |-> req,
                      key |-> KeyOf(req), result |-> result, at |-> now]
          /\ evicted' = evicted \ {KeyOf(req)}
    /\ ops' = ops + 1
    /\ UNCHANGED <<now, agent_vars, observe_vars>>
    /\ UNCHANGED peer_vars

GetCachedResult ==
    /\ ops < MaxOps
    /\ \E req \in Requests, ttl \in TTLs :
          LET out == get_cached_result(State, req.instruction, req.page_url,
                                       req.page_title, ttl, now)
          IN  /\ SetState(out.st)
              /\ last' = [op |-> "get_cached_result", seq |-> ops + 1,
                          req |-> req, key |-> KeyOf(req), ttl |-> ttl,
                          ret |-> out.ret, at |-> now]
              /\ evicted' = EvictedBy(evicted, State, out.st, KeyOf(req))
    /\ ops' = ops + 1
    /\ UNCHANGED <<now, agent_vars, observe_vars>>
    /\ UNCHANGED peer_vars

Next == Tick \/ SetCache \/ GetCachedResult

Spec == Init /\ [][Next]_vars

\* --------------------------------------------- a cache loaded from its file
KeyA == generate_cache_key(InstrA, Url1, None)

\* The entry set_cache writes for request A and Result1 at time 0.
StoredEntry ==
    [ instruction |-> InstrA, page_url |-> Url1, page_title |-> <<>>,
      result |-> [ selector |-> Result1.selector,
                   description |-> Result1.description,
                   method |-> None, arguments |-> None, backend_node_id |-> None ],
      created_at |-> isoformat(0), last_used |-> isoformat(0), hit_count |-> 0 ]

\* Entries a backing file can hold: the one above, and the same with a key
\* missing or with a creation time that is no ISO text.
PersistedEntries ==
    { StoredEntry,
      Del(StoredEntry, "hit_count"),
      Del(StoredEntry, "result"),
      Del(StoredEntry, "created_at"),
      Put(StoredEntry, "created_at", NotADate) }

PersistedFiles == {EmptyDict} \cup {Put(EmptyDict, KeyA, e) : e \in PersistedEntries}

\* StagehandCache.__init__ on an existing backing file: _load_cache returns
\* the parsed JSON as it is, the mirror is empty.
InitLoaded ==
    /\ memory_cache = EmptyDict
    /\ caches \in PersistedFiles
    /\ shared = {}
    /\ file_caches = caches
    /\ now = 0
    /\ ops = 0
    /\ last = [op |-> "init", seq |-> 0]
    /\ evicted = {}
    /\ cache_meta = DefaultMeta(0)
    /\ file_meta = cache_meta
    /\ file_state = "ok"
    /\ InitNoAgent
    /\ InitNoObserve
    /\ InitNoPeer

SpecLoaded == InitLoaded /\ [][Next]_vars

\* ------------------------------------------------- ObserveHandler.observe
\* xpath.replace("xpath=", ""): every occurrence of the prefix is removed.
RemoveXpathPrefix(xpath) == SelectSeq(xpath, LAMBDA tok : tok # "xpath=")

\* The live page, as the selector check sees it: the paths that resolve to
\* at least one element, and whether the driver call raises.
Page(live, broken) == [live |-> live, broken |-> broken]

validate_cached_xpath_any(page, xpath) == ~page.broken

\* validate_cached_xpath: count() > 0, and False on any exception.
validate_cached_xpath(page, xpath) ==
    /\ ~page.broken
    /\ RemoveXpathPrefix(xpath) \in page.live

\* The part of observe after the cache check: the model is called, and the
\* first of the results that got a selector is stored.
ObserveByModel_storing_last(st, req, use_cache, elements, t, lookup) ==
    [ st |-> IF use_cache /\ elements # <<>>
             THEN set_cache(st, req.instruction, req.page_url, elements[Len(elements)],
                            req.page_title, t)
             ELSE st,
      ret |-> [kind |-> "results", results |-> elements],
      model_calls |-> 1,
      lookup |-> lookup,
      stored |-> use_cache /\ elements # <<>> ]

ObserveByModel(st, req, use_cache, elements, t, lookup) ==
    [ st |-> IF use_cache /\ elements # <<>>
             THEN set_cache(st, req.instruction, req.page_url, elements[1],
                            req.page_title, t)
             ELSE st,
      ret |-> [kind |-> "results", results |-> elements],
      model_calls |-> 1,
      lookup |-> lookup,
      stored |-> use_cache /\ elements # <<>> ]

observe_lookup_on_bypass(st, req, use_cache, cache_ttl, t) ==
    LET out == get_cached_result(st, req.instruction, req.page_url,
                                 req.page_title, cache_ttl, t)
    IN  [ st |-> out.st, ret |-> out.ret,
          lookup |-> IF out.ret.kind \in {"raise", "miss"} THEN out.ret.kind
                     ELSE "hit" ]

\* The cache check of observe(options, use_cache, cache_ttl) at time t, where
\* req holds the instruction and the page's URL and title: no lookup without
\* use_cache; else the lookup raises, misses, or gives the cached result.
observe_lookup(st, req, use_cache, cache_ttl, t) ==
    IF ~use_cache
    THEN [st |-> st, ret |-> Miss, lookup |-> "bypass"]
    ELSE LET out == get_cached_result(st, req.instruction, req.page_url,
                                      req.page_title, cache_ttl, t)
         IN  [ st |-> out.st, ret |-> out.ret,
               lookup |-> IF out.ret.kind \in {"raise", "miss"} THEN out.ret.kind
                          ELSE "hit" ]

ObserveRequests == {Request(InstrA, Url1, None), Request(InstrB, Url1, Some(Title1))}

\* What the selector generation returns for the elements the model named:
\* nothing, one result, two results.
ElementLists == {<<>>, <<Result1>>, <<Result2, Result1>>}

\* ------------------------------------------------- validate_cached_xpath
XPaths == {<<"//input">>, <<"//button">>, <<"//a">>}

\* Recorded selectors: a path, with the "xpath=" prefix observe gives it or
\* without.
Selectors == XPaths \cup {<<"xpath=">> \o path : path \in XPaths}

ValidatePages == {Page(live, broken) : live \in SUBSET XPaths, broken \in BOOLEAN}

ValidateCachedXpath ==
    /\ ops < MaxOps
    /\ \E page \in ValidatePages, xpath \in Selectors :
          last' = [op |-> "validate_cached_xpath", seq |-> ops + 1, page |-> page,
                   xpath |-> xpath, ret |-> validate_cached_xpath(page, xpath)]
    /\ ops' = ops + 1
    /\ UNCHANGED <<memory_cache, caches, shared, file_caches, now, evicted>>
    /\ UNCHANGED <<cache_meta, file_meta, file_state>>
    /\ UNCHANGED <<agent_vars, observe_vars>>
    /\ UNCHANGED peer_vars

\* validate_cached_xpath on each page and selector.
SpecValidate == Init /\ [][ValidateCachedXpath]_vars

\* ------------------------------------ observe, one awaited call at a time
\* What the driver does with the count() call of the selector check: it
\* answers with a count above 0 or of 0, it raises, or it never answers.
DriverOutcomes == {"found", "empty", "raises", "silent"}

\* The page as the driver's answer shows it for the selector checked.
PageSeen(driver, xpath) ==
    Page(IF driver = "found" THEN {RemoveXpathPrefix(xpath)} ELSE {}, driver = "raises")

\* observe up to its first awaited call after the page's title: the cache
\* check, then the driver call of the selector check on a hit, the call for
\* the accessibility tree otherwise.  A new call runs in the first task
\* that is free.
ObserveStart ==
    /\ \E t \in Tasks, req \in ObserveRequests, use_cache \in BOOLEAN, ttl \in TTLs,
          draw_overlay \in BOOLEAN, driver \in DriverOutcomes :
          LET out == observe_lookup(State, req, use_cache, ttl, now)
              begun == [NoObserve EXCEPT !.req = req, !.use_cache = use_cache,
                                         !.draw_overlay = draw_overlay,
                                         !.entry = IF KeyOf(req) \in DOMAIN caches
                                                   THEN Some(caches[KeyOf(req)])
                                                   ELSE None]
          IN  /\ obs[t].pc \in {"idle", "done"}
              /\ \A u \in Tasks : u < t => obs[u].pc \notin {"idle", "done"}
              /\ SetState(out.st)
              /\ evicted' = EvictedBy(evicted, State, out.st, KeyOf(req))
              /\ obs' = [obs EXCEPT ![t] =
                            IF out.lookup = "raise"
                            THEN [begun EXCEPT !.pc = "done", !.entry = None, !.lookup = "raise",
                                               !.ret = Raised]
                            ELSE IF out.lookup = "hit"
                            THEN [begun EXCEPT !.pc = "validating", !.driver = driver,
                                               !.cached = Some(out.ret.result)]
                            ELSE [begun EXCEPT !.pc = "tree", !.lookup = out.lookup]]
    /\ ops' = ops + 1
    /\ UNCHANGED <<now, last, agent_vars>>
    /\ UNCHANGED peer_vars

\* The driver's answer arrives and validate_cached_xpath returns: observe
\* returns the cached result, or asks for the accessibility tree.
DriverAnswers ==
    /\ \E t \in Tasks :
          /\ obs[t].pc = "validating"
          /\ obs[t].driver # "silent"
          /\ LET selector == obs[t].cached[1].selector
                 valid == validate_cached_xpath(PageSeen(obs[t].driver, selector), selector)
             IN  obs' = [obs EXCEPT ![t] =
                            IF valid
                            THEN [@ EXCEPT !.pc = "done", !.entry = None, !.lookup = "valid",
                                           !.driver = "none",
                                           !.ret = [kind |-> "results",
                                                    results |-> <<obs[t].cached[1]>>]]
                            ELSE [@ EXCEPT !.pc = "tree", !.lookup = "invalid",
                                           !.driver = "none"]]
    /\ UNCHANGED <<cache_vars, agent_vars>>
    /\ UNCHANGED peer_vars

\* The accessibility tree arrives and the model is called: when it names
\* an element observe waits for the selectors of the elements; else nothing
\* is stored and observe returns the empty list, after the overlay when
\* options.draw_overlay asks for one.
ModelAnswers ==
    /\ \E t \in Tasks, named \in BOOLEAN :
          /\ obs[t].pc = "tree"
          /\ obs' = [obs EXCEPT ![t] =
                        IF named
                        THEN [@ EXCEPT !.pc = "selectors", !.model_calls = 1]
                        ELSE IF obs[t].draw_overlay
                        THEN [@ EXCEPT !.pc = "overlay", !.model_calls = 1]
                        ELSE [@ EXCEPT !.pc = "done", !.entry = None, !.model_calls = 1,
                                       !.ret = [kind |-> "results", results |-> <<>>]]]
    /\ UNCHANGED <<cache_vars, agent_vars>>
    /\ UNCHANGED peer_vars

\* The selectors arrive: the first result is stored, with each outcome of
\* the write of the file; observe then returns the list, or waits for the
\* overlay when options.draw_overlay asks for one.
SelectorsAnswer ==
    /\ \E t \in Tasks, elements \in ElementLists, disk \in DiskOutcomes :
          LET out == ObserveByModel(StateOn(disk), obs[t].req, obs[t].use_cache,
                                    elements, now, obs[t].lookup)
          IN  /\ obs[t].pc = "selectors"
              /\ disk # "ok" => out.stored
              /\ SetState(out.st)
              /\ evicted' = IF out.stored THEN evicted \ {KeyOf(obs[t].req)} ELSE evicted
              /\ obs' = [obs EXCEPT ![t] =
                            IF obs[t].draw_overlay
                            THEN [@ EXCEPT !.pc = "overlay",
                                           !.answer = elements,
                                           !.stored = out.stored]
                            ELSE [@ EXCEPT !.pc = "done", !.entry = None, !.ret = out.ret,
                                           !.answer = elements,
                                           !.stored = out.stored]]
    /\ UNCHANGED <<now, ops, last, agent_vars>>
    /\ UNCHANGED peer_vars

\* draw_observe_overlay ends: observe returns the list of the model, or the
\* exception of the overlay leaves observe.
OverlayDrawn ==
    /\ \E t \in Tasks, raises \in BOOLEAN :
          /\ obs[t].pc = "overlay"
          /\ obs' = [obs EXCEPT ![t] =
                        [@ EXCEPT !.pc = "done", !.entry = None,
                                  !.ret = IF raises THEN Raised
                                          ELSE [kind |-> "results",
                                                results |-> obs[t].answer]]]
    /\ UNCHANGED <<cache_vars, agent_vars>>
    /\ UNCHANGED peer_vars

\* The calls of observe and the ticks of the clock in a run.
MaxObserveOps == 2

NextObserve ==
    \/ (ops < MaxObserveOps /\ Tick)
    \/ (ops < MaxObserveOps /\ ObserveStart)
    \/ DriverAnswers
    \/ ModelAnswers
    \/ SelectorsAnswer
    \/ OverlayDrawn

\* ObserveHandler.__init__ builds its own StagehandCache; the handler's
\* only operations on it are those of observe.
SpecObserve == Init /\ [][NextObserve]_vars

\* The event loop resumes a coroutine whose awaited call has ended.
SpecObserveSteps ==
    /\ Init
    /\ [][NextObserve]_vars
    /\ WF_vars(DriverAnswers)
    /\ WF_vars(ModelAnswers)
    /\ WF_vars(SelectorsAnswer)
    /\ WF_vars(OverlayDrawn)

\* ------------------------------------------------------------ Agent.execute
\* Each behaviour calls execute at most MaxExecutes times.
MaxExecutes == 2

\* The type tags _create_agent_action_from_dict knows.
KnownActionTypes ==
    { "click", "double_click", "type", "key_press", "scroll", "drag", "move",
      "wait", "screenshot", "function", "key" }

\* A persisted action: its type tag, and whether its fields fit the action
\* class of that tag (the constructor raises when they do not).
ActionDict(type, fits) == [type |-> type, fits |-> fits]

create_agent_action_from_dict_raising(action_dict) ==
    IF "type" \in DOMAIN action_dict /\ action_dict["type"] \in KnownActionTypes
    THEN IF action_dict["fits"]
         THEN Some([action_type |-> action_dict["type"]])
         ELSE Some([action_type |-> "raise"])
    ELSE None

\* _create_agent_action_from_dict: None for an unknown tag and for any
\* exception of the constructor.
create_agent_action_from_dict(action_dict) ==
    IF "type" \in DOMAIN action_dict
       /\ action_dict["type"] \in KnownActionTypes
       /\ action_dict["fits"]
    THEN Some([action_type |-> action_dict["type"]])
    ELSE None

\* executable_actions: the cached actions an AgentAction could be made of,
\* each with its place in the cached sequence.
executable_actions(cached_actions) ==
    SelectSeq([i \in 1..Len(cached_actions) |-> i],
              LAMBDA i : create_agent_action_from_dict(cached_actions[i]) # None)

action_succeeded_always(action_result) == TRUE

\* action_result.get("success", True)
action_succeeded(action_result) ==
    IF "success" \in DOMAIN action_result THEN action_result["success"] ELSE TRUE

execute_catches_replay_only(where) == where \in {"replay", "run_task", "save"}

\* The places of execute whose exceptions a try/except of execute catches:
\* the cache lookup, the replay, client.run_task and the cache save.
execute_catches(where) == where \in {"lookup", "replay", "run_task", "save"}

\* AgentCache.get_cached_actions: the stored sequence when the key has an
\* entry that is fresh and compatible with the live page; an entry that is
\* not is evicted and the lookup is a miss.
get_cached_actions(cache, instruction, valid) ==
    IF instruction \notin DOMAIN cache
    THEN [cache |-> cache, actions |-> None, id |-> 0]
    ELSE IF ~valid
    THEN [cache |-> Del(cache, instruction), actions |-> None, id |-> 0]
    ELSE [ cache |-> cache, actions |-> Some(cache[instruction].actions),
           id |-> cache[instruction].id ]

\* AgentCache.set_cached_actions: the entry of the key is written, over any
\* entry it had.  id numbers the entries: the execute that stored it.
set_cached_actions(cache, instruction, actions, id) ==
    Put(cache, instruction, [actions |-> actions, id |-> id])

CacheHitResult_with_usage(cached_actions, n) ==
    [ kind |-> "cache_hit", completed |-> TRUE, actions |-> cached_actions,
      input_tokens |-> 5, output_tokens |-> 2, execute |-> n ]

\* The AgentResult returned on a cache hit.
CacheHitResult(cached_actions, n) ==
    [ kind |-> "cache_hit", completed |-> TRUE, actions |-> cached_actions,
      input_tokens |-> 0, output_tokens |-> 0, execute |-> n ]

\* The AgentResult returned after client.run_task.
ModelResult(run, n) ==
    IF run.kind = "raise"
    THEN [ kind |-> "model_error", completed |-> TRUE, actions |-> <<>>,
           input_tokens |-> 0, output_tokens |-> 0, execute |-> n ]
    ELSE [ kind |-> "model", completed |-> run.completed, actions |-> run.actions,
           input_tokens |-> run.input_tokens, output_tokens |-> run.output_tokens,
           execute |-> n ]

\* An exception that leaves execute.
Propagated(n) == [kind |-> "raised", execute |-> n]

Click == ActionDict("click", TRUE)
TypeText == ActionDict("type", TRUE)
KeyPress == ActionDict("keypress", TRUE)
BadClick == ActionDict("click", FALSE)

AgentInstructions == {InstrA}

\* The sequences an agent_cache.json can hold when the Agent is built.
PersistedSequences ==
    { <<Click, TypeText, Click>>, <<Click, KeyPress, TypeText>>, <<BadClick>> }

PersistedAgentCaches ==
    {EmptyDict}
    \cup { set_cached_actions(EmptyDict, InstrA, seq, 0) : seq \in PersistedSequences }

\* What cua_handler.perform_action does: it returns a dict, with or without
\* the "success" key, or raises.  The label is what the replay log keeps of
\* it: "failure" for success = False, "raise", and "success" otherwise.
PerformOutcomes ==
    { [label |-> "success", raises |-> FALSE, result |-> [success |-> TRUE]],
      [label |-> "failure", raises |-> FALSE,
       result |-> [success |-> FALSE, error |-> "e"]],
      [label |-> "success", raises |-> FALSE, result |-> [message |-> "m"]],
      [label |-> "raise", raises |-> TRUE, result |-> [message |-> "m"]] }

\* ------------------------------------------------ OpenAICUAClient.run_task
\* config.max_steps
MaxSteps == 2

\* What one step of run_task meets: the model call raises, the response has
\* no choice, no action is parsed from it, the parsed action performs with
\* success or without, or perform_action raises.
StepOutcomes ==
    {"api_error", "no_response", "no_action", "action_ok", "action_failed",
     "perform_raises"}

\* The action parsed at a step, as set_cached_actions would persist it.
ParsedAction(outcome) == IF outcome = "action_ok" THEN TypeText ELSE Click

\* The AgentResult of run_task, with what the run did: the actions taken
\* with their success, the model calls made, and how the run ended.
RunResult(completed, actions, taken, calls, answered, ended) ==
    [ kind |-> "result", completed |-> completed, actions |-> actions,
      taken |-> taken, model_calls |-> calls,
      input_tokens |-> 5 * answered, output_tokens |-> 2 * answered,
      ended |-> ended ]

Taken(outcome) == [action |-> ParsedAction(outcome), success |-> outcome = "action_ok"]

ActionsOf(taken) == [i \in 1..Len(taken) |-> taken[i].action]

\* The loop of run_task from step step_count on: for step_count in
\* range(max_steps).
RECURSIVE run_steps(_, _, _, _)
run_steps(max_steps, steps, step_count, taken) ==
    IF step_count >= max_steps
    THEN RunResult(FALSE, ActionsOf(taken), taken, step_count, step_count, "max_steps")
    ELSE LET outcome == steps[step_count + 1]
             calls == step_count + 1
         IN  IF outcome = "api_error"
             THEN RunResult(TRUE, ActionsOf(taken), taken, calls, calls - 1, "api_error")
             ELSE IF outcome = "no_response"
             THEN RunResult(TRUE, <<>>, taken, calls, calls, "no_response")
             ELSE IF outcome = "no_action"
             THEN RunResult(TRUE, ActionsOf(taken), taken, calls, calls, "no_action")
             ELSE IF outcome = "perform_raises"
             THEN [kind |-> "raise", taken |-> taken, model_calls |-> calls]
             ELSE IF outcome = "action_ok"
             THEN LET all == Append(taken, Taken(outcome))
                  IN  RunResult(TRUE, ActionsOf(all), all, calls, calls, "success")
             ELSE run_steps(max_steps, steps, step_count + 1,
                            Append(taken, Taken(outcome)))

\* run_task(instruction, max_steps), where steps[i] is what step i meets: a
\* client without a handler returns at once.
run_task(has_handler, max_steps, steps) ==
    IF ~has_handler
    THEN RunResult(FALSE, <<>>, <<>>, 0, 0, "no_handler")
    ELSE run_steps(max_steps, steps, 0, <<>>)

\* What the steps of a run can meet, one after the other.
Scripts == [1..MaxSteps -> StepOutcomes]

\* What client.run_task does for the Agent, whose client has a handler: it
\* returns an AgentResult or raises.
RunOutcomes == {run_task(TRUE, MaxSteps, steps) : steps \in Scripts}

\* Agent.__init__ with enable_cache: the agent cache is loaded from its file.
InitAgent == agent_cache \in PersistedAgentCaches /\ NoExecutes

\* The locals of execute when it starts.
Locals(instruction, n) ==
    [NoLocals EXCEPT !.instruction = instruction, !.execute = n]

\* execute, from its call to the end of the cache lookup: the lookup raises,
\* misses, or gives a sequence, whose executable actions are then built and
\* the first of them is sent to perform_action.  A new call runs in the
\* first task that is free.
ExecuteBegin ==
    /\ executes < MaxExecutes
    /\ \E t \in Tasks, instruction \in AgentInstructions,
          lookup \in {"raise", "valid", "invalid"} :
          LET n == executes + 1
              base == Locals(instruction, n)
              got == get_cached_actions(agent_cache, instruction, lookup = "valid")
              exe == executable_actions(got.actions[1])
          IN  /\ pc[t] = "idle"
              /\ \A u \in Tasks : u < t => pc[u] # "idle"
              /\ replay_log' = [replay_log EXCEPT ![t] = <<>>]
              /\ IF lookup = "raise"
                 THEN /\ agent_cache' = agent_cache
                      /\ cur' = [cur EXCEPT ![t] = [base EXCEPT !.fallback = "lookup_raised"]]
                      /\ IF execute_catches("lookup")
                         THEN pc' = [pc EXCEPT ![t] = "run_task"]
                              /\ agent_result' = [agent_result EXCEPT ![t] = [kind |-> "none"]]
                         ELSE pc' = pc
                              /\ agent_result' = [agent_result EXCEPT ![t] = Propagated(n)]
                 ELSE /\ agent_cache' = got.cache
                      /\ IF got.actions = None \/ got.actions = Some(<<>>)
                         THEN /\ cur' = [cur EXCEPT ![t] = base]
                              /\ pc' = [pc EXCEPT ![t] = "run_task"]
                              /\ agent_result' = [agent_result EXCEPT ![t] = [kind |-> "none"]]
                         ELSE /\ cur' = [cur EXCEPT ![t] =
                                            [base EXCEPT !.cached_actions = got.actions,
                                                         !.entry_id = got.id,
                                                         !.executable = exe,
                                                         !.waits = IF exe = <<>> THEN "none"
                                                                   ELSE "perform"]]
                              /\ IF exe = <<>>
                                 THEN /\ pc' = pc
                                      /\ agent_result' =
                                             [agent_result EXCEPT ![t] =
                                                 CacheHitResult(got.actions[1], n)]
                                 ELSE /\ pc' = [pc EXCEPT ![t] = "replay"]
                                      /\ agent_result' = [agent_result EXCEPT ![t] = [kind |-> "none"]]
    /\ executes' = executes + 1
    /\ UNCHANGED <<failed_ids, cache_vars, observe_vars>>
    /\ UNCHANGED peer_vars

\* The replay of task t goes on after the result of its action was checked:
\* the except branch of the replay when the action raised or reported
\* failure, the return of the cache hit after the last action, the next
\* perform_action otherwise.
ReplayChecked(t, locals, failure) ==
    IF failure # "none"
    THEN /\ cur' = [cur EXCEPT ![t] = [locals EXCEPT !.fallback = failure,
                                                     !.cached_actions = None,
                                                     !.waits = "none",
                                                     !.action_result = None]]
         /\ failed_ids' = failed_ids \cup {cur[t].entry_id}
         /\ IF execute_catches("replay")
            THEN pc' = [pc EXCEPT ![t] = "run_task"] /\ agent_result' = agent_result
            ELSE pc' = [pc EXCEPT ![t] = "idle"]
                 /\ agent_result' = [agent_result EXCEPT ![t] = Propagated(cur[t].execute)]
    ELSE /\ failed_ids' = failed_ids
         /\ IF cur[t].i + 1 = Len(cur[t].executable)
            THEN /\ cur' = [cur EXCEPT ![t] = [locals EXCEPT !.i = @ + 1, !.waits = "none",
                                                             !.action_result = None]]
                 /\ pc' = [pc EXCEPT ![t] = "idle"]
                 /\ agent_result' =
                        [agent_result EXCEPT ![t] =
                            CacheHitResult(cur[t].cached_actions[1], cur[t].execute)]
            ELSE /\ cur' = [cur EXCEPT ![t] = [locals EXCEPT !.i = @ + 1,
                                                             !.waits = "perform",
                                                             !.action_result = None]]
                 /\ pc' = pc
                 /\ agent_result' = agent_result

\* perform_action answers in the replay loop: when it raises the replay is
\* over; after the last action the result is checked at once; after any
\* other action the loop first sleeps, the result unchecked.
ReplayPerform ==
    /\ \E t \in Tasks, outcome \in PerformOutcomes :
          LET idx == cur[t].executable[cur[t].i + 1]
              is_last == cur[t].i + 1 = Len(cur[t].executable)
              got == [cur[t] EXCEPT !.action_result = Some(outcome.result)]
          IN  /\ pc[t] = "replay"
              /\ cur[t].waits = "perform"
              /\ replay_log' =
                     [replay_log EXCEPT ![t] =
                         Append(@, [index |-> idx, outcome |-> outcome.label])]
              /\ IF outcome.raises
                 THEN ReplayChecked(t, cur[t], "replay_raised")
                 ELSE IF is_last
                 THEN ReplayChecked(t, cur[t], IF action_succeeded(outcome.result)
                                               THEN "none" ELSE "replay_failed")
                 ELSE /\ cur' = [cur EXCEPT ![t] = [got EXCEPT !.waits = "sleep",
                                                               !.delays = @ + 1]]
                      /\ UNCHANGED <<pc, agent_result, failed_ids>>
    /\ UNCHANGED <<agent_cache, executes, cache_vars, observe_vars>>
    /\ UNCHANGED peer_vars

\* The sleep between two actions of the replay ends and the result of the
\* action performed before it is checked.
ReplayWakes ==
    /\ \E t \in Tasks :
          /\ pc[t] = "replay"
          /\ cur[t].waits = "sleep"
          /\ ReplayChecked(t, cur[t], IF action_succeeded(cur[t].action_result[1])
                                      THEN "none" ELSE "replay_failed")
    /\ UNCHANGED <<replay_log, agent_cache, executes, cache_vars, observe_vars>>
    /\ UNCHANGED peer_vars

\* The result of the model run is to be stored: it completed, it holds
\* actions and the caller did not disable the save.
saves_result(run, disable_cache_save) ==
    /\ run.kind = "result"
    /\ run.completed
    /\ run.actions # <<>>
    /\ ~disable_cache_save

\* client.run_task answers: execute returns its result, or first asks for
\* the screenshot and the title it stores the result with.  The option
\* disable_cache_save of the call is read here and nowhere else.
RunTask ==
    /\ \E t \in Tasks, run \in RunOutcomes, disable_cache_save \in BOOLEAN :
          /\ pc[t] = "run_task"
          /\ cur' = [cur EXCEPT ![t] = [@ EXCEPT !.runs = @ + 1, !.run = run]]
          /\ IF run.kind = "raise" /\ ~execute_catches("run_task")
             THEN /\ pc' = [pc EXCEPT ![t] = "idle"]
                  /\ agent_result' = [agent_result EXCEPT ![t] = Propagated(cur[t].execute)]
             ELSE IF saves_result(run, disable_cache_save)
             THEN /\ pc' = [pc EXCEPT ![t] = "save"]
                  /\ agent_result' = agent_result
             ELSE /\ pc' = [pc EXCEPT ![t] = "idle"]
                  /\ agent_result' =
                         [agent_result EXCEPT ![t] = ModelResult(run, cur[t].execute)]
    /\ UNCHANGED <<agent_cache, replay_log, executes, failed_ids>>
    /\ UNCHANGED <<cache_vars, observe_vars>>
    /\ UNCHANGED peer_vars

\* The screenshot and the title arrive, or one of the calls raises: the
\* result is stored unless something raised, and execute returns it.
SaveResult ==
    /\ \E t \in Tasks, save_raises \in BOOLEAN :
          /\ pc[t] = "save"
          /\ agent_cache' =
                 IF save_raises THEN agent_cache
                 ELSE set_cached_actions(agent_cache, cur[t].instruction,
                                         cur[t].run.actions, cur[t].execute)
          /\ pc' = [pc EXCEPT ![t] = "idle"]
          /\ agent_result' =
                 [agent_result EXCEPT ![t] = ModelResult(cur[t].run, cur[t].execute)]
    /\ UNCHANGED <<cur, replay_log, executes, failed_ids, cache_vars, observe_vars>>
    /\ UNCHANGED peer_vars

\* Agent.clear_cache(), whatever the tasks are doing: AgentCache.clear_cache
\* leaves no entry.
AgentClearCache ==
    /\ agent_cache' = EmptyDict
    /\ UNCHANGED <<pc, cur, replay_log, agent_result, executes, failed_ids>>
    /\ UNCHANGED <<cache_vars, observe_vars>>
    /\ UNCHANGED peer_vars

NextAgent ==
    ExecuteBegin \/ ReplayPerform \/ ReplayWakes \/ RunTask \/ SaveResult
        \/ AgentClearCache

\* An Agent built with enable_cache, over an empty observe cache.
InitWithAgent == InitCache /\ InitAgent /\ InitNoObserve /\ InitNoPeer

SpecAgent == InitWithAgent /\ [][NextAgent]_vars

\* ------------------------------- run_task and the action construction
\* The persisted actions given to _create_agent_action_from_dict: each known
\* tag and two unknown ones, with fields that fit or do not, and a record
\* without a tag.
ActionDicts ==
    { ActionDict(type, fits) :
          type \in KnownActionTypes \cup {"keypress", "hover"}, fits \in BOOLEAN }
    \cup { [fits |-> TRUE] }

CreateAgentAction ==
    /\ ops < MaxOps
    /\ \E action_dict \in ActionDicts :
          last' = [op |-> "create_agent_action_from_dict", seq |-> ops + 1,
                   action_dict |-> action_dict,
                   ret |-> create_agent_action_from_dict(action_dict)]
    /\ ops' = ops + 1
    /\ UNCHANGED <<memory_cache, caches, shared, file_caches, now, evicted>>
    /\ UNCHANGED <<cache_meta, file_meta, file_state>>
    /\ UNCHANGED <<agent_vars, observe_vars, peer_vars>>

\* The number of calls of run_task in a run.
MaxRuns == 1

\* run_task of a client built with or without a handler.
RunTaskCall ==
    /\ ops < MaxRuns
    /\ \E has_handler \in BOOLEAN, max_steps \in 0..MaxSteps, steps \in Scripts :
          last' = [op |-> "run_task", seq |-> ops + 1, has_handler |-> has_handler,
                   max_steps |-> max_steps, steps |-> steps,
                   ret |-> run_task(has_handler, max_steps, steps)]
    /\ ops' = ops + 1
    /\ UNCHANGED <<memory_cache, caches, shared, file_caches, now, evicted>>
    /\ UNCHANGED <<cache_meta, file_meta, file_state>>
    /\ UNCHANGED <<agent_vars, observe_vars, peer_vars>>

\* _create_agent_action_from_dict on each persisted action.
SpecCreateAction == Init /\ [][CreateAgentAction]_vars

\* run_task on each run of steps.
SpecRunTask == Init /\ [][RunTaskCall]_vars

clear_cache_always_saving(st, expired_only, ttl, t) ==
    LET expired_keys == {k \in DOMAIN st.dur : ~is_cache_valid(st.dur[k], ttl, t)}
        cleared_count ==
            IF expired_only THEN Cardinality(expired_keys)
            ELSE Cardinality(DOMAIN st.dur)
        cleared ==
            IF expired_only
            THEN [st EXCEPT !.dur = DelAll(st.dur, expired_keys),
                            !.mem = DelAll(st.mem, expired_keys),
                            !.shared = st.shared \ expired_keys]
            ELSE [st EXCEPT !.dur = EmptyDict, !.mem = EmptyDict, !.shared = {}]
    IN  [ st |-> save_cache(cleared),
          ret |-> cleared_count ]

\* -------------------------------------- clear, import and reopening a cache
\* clear_cache(expired_only, ttl) at time t: the keys to clear are taken from
\* the durable map; the file is written when at least one was cleared.
clear_cache(st, expired_only, ttl, t) ==
    LET expired_keys == {k \in DOMAIN st.dur : ~is_cache_valid(st.dur[k], ttl, t)}
        cleared_count ==
            IF expired_only THEN Cardinality(expired_keys)
            ELSE Cardinality(DOMAIN st.dur)
        cleared ==
            IF expired_only
            THEN [st EXCEPT !.dur = DelAll(st.dur, expired_keys),
                            !.mem = DelAll(st.mem, expired_keys),
                            !.shared = st.shared \ expired_keys]
            ELSE [st EXCEPT !.dur = EmptyDict, !.mem = EmptyDict, !.shared = {}]
    IN  [ st |-> IF cleared_count > 0 THEN save_cache(cleared) ELSE cleared,
          ret |-> cleared_count ]

\* A file given to import_cache: it does not exist, it is no JSON, or it is
\* a JSON object whose "caches" is the map given.
ImportFile(kind, entries) == [kind |-> kind, caches |-> entries]

import_cache_overwriting(st, import_file) ==
    IF import_file.kind # "data" THEN [st |-> st, merged_count |-> None]
    ELSE LET new_keys == DOMAIN import_file.caches
             merged == [k \in DOMAIN st.dur \cup new_keys |->
                           IF k \in new_keys THEN import_file.caches[k] ELSE st.dur[k]]
         IN  [ st |-> save_cache([st EXCEPT !.dur = merged]),
               merged_count |-> Some(Cardinality(new_keys)) ]

\* import_cache of the cache manager tool: the entries of the file whose key
\* the durable map does not have are added to it, as they are, and the file
\* of the cache is written; merged_count is the number printed (None when
\* the import stops at a missing or unreadable file).
import_cache(st, import_file) ==
    IF import_file.kind # "data" THEN [st |-> st, merged_count |-> None]
    ELSE LET new_keys == DOMAIN import_file.caches \ DOMAIN st.dur
             merged == [k \in DOMAIN st.dur \cup new_keys |->
                           IF k \in new_keys THEN import_file.caches[k] ELSE st.dur[k]]
         IN  [ st |-> save_cache([st EXCEPT !.dur = merged]),
               merged_count |-> Some(Cardinality(new_keys)) ]

load_cache_trusting(st, t) == [meta |-> st.file_meta, caches |-> st.file]

\* _load_cache at time t: the parsed file when it exists and parses, the
\* default structure otherwise; no exception leaves it.
load_cache(st, t) ==
    IF st.file_state = "ok"
    THEN [meta |-> st.file_meta, caches |-> st.file]
    ELSE [meta |-> DefaultMeta(t), caches |-> EmptyDict]

\* StagehandCache.__init__ on the backing file of st, at time t.
new_cache(st, t) ==
    LET data == load_cache(st, t)
    IN  [st EXCEPT !.meta = data.meta, !.dur = data.caches,
                   !.mem = EmptyDict, !.shared = {}]

\* The requests of the store operations.
StoreRequests == {Request(InstrA, Url1, None), Request(InstrB, Url1, None)}

KeyB == generate_cache_key(InstrB, Url1, None)

\* An entry for request A as another cache has stored and used it.
OtherEntryA ==
    [ StoredEntry EXCEPT !.result = [ selector |-> Result2.selector,
                                      description |-> Result2.description,
                                      method |-> Result2.method,
                                      arguments |-> Result2.arguments,
                                      backend_node_id |-> Result2.backend_node_id ],
                         !.hit_count = 3 ]

\* An entry for request B, and the same without its result and hit_count.
EntryB == [StoredEntry EXCEPT !.instruction = InstrB]
MalformedEntryB == Del(Del(EntryB, "result"), "hit_count")

\* The files given to import_cache: import_cache reads any JSON object, so
\* beside the files a cache has written there is one with an entry a
\* cache would not write and one whose entry for request A sits under
\* the key of request B.
ImportFiles ==
    { ImportFile("absent", EmptyDict),
      ImportFile("unparsable", EmptyDict),
      ImportFile("data", Put(Put(EmptyDict, KeyA, OtherEntryA), KeyB, EntryB)),
      ImportFile("data", Put(Put(EmptyDict, KeyA, OtherEntryA), KeyB, MalformedEntryB)),
      ImportFile("data", Put(EmptyDict, KeyB, OtherEntryA)) }

\* The backing file when the cache is built: none, one that does not parse,
\* or one the cache wrote before.
InitStoreCache ==
    /\ \E fs \in {"absent", "corrupt", "ok"}, f \in {EmptyDict, Put(EmptyDict, KeyA, StoredEntry)} :
          LET disk_state ==
                  CacheState(EmptyDict, EmptyDict, {}, IF fs = "ok" THEN f ELSE EmptyDict)
                      @@ Storage(DefaultMeta(0),
                                 IF fs = "absent" THEN NoFileMeta ELSE DefaultMeta(0),
                                 fs, "ok")
              st == new_cache(disk_state, 0)
          IN  /\ memory_cache = st.mem
              /\ caches = st.dur
              /\ shared = st.shared
              /\ file_caches = st.file
              /\ cache_meta = st.meta
              /\ file_meta = st.file_meta
              /\ file_state = st.file_state
              /\ last = [op |-> "new_cache", seq |-> 0, found |-> fs, at |-> 0]
    /\ now = 0
    /\ ops = 0
    /\ evicted = {}
    /\ InitNoAgent
    /\ InitNoObserve

InitStore == InitStoreCache /\ InitNoPeer

\* set_cache, with each outcome of the write of the file.
Store ==
    /\ ops < MaxOps
    /\ \E req \in StoreRequests, result \in Results, disk \in DiskOutcomes :
          /\ SetState(set_cache(StateOn(disk), req.instruction, req.page_url, result,
                                req.page_title, now))
          /\ last' = [op |-> "set_cache", seq |-> ops + 1, req |-> req,
                      key |-> KeyOf(req), result |-> result, disk |-> disk,
                      prior |-> IF KeyOf(req) \in DOMAIN caches
                                THEN Some(caches[KeyOf(req)]) ELSE None,
                      at |-> now]
          /\ evicted' = evicted \ {KeyOf(req)}
    /\ ops' = ops + 1
    /\ UNCHANGED <<now, agent_vars, observe_vars>>
    /\ UNCHANGED peer_vars

\* get_cached_result, with each outcome of the write of the file.
Lookup ==
    /\ ops < MaxOps
    /\ \E req \in StoreRequests, ttl \in TTLs, disk \in DiskOutcomes :
          LET out == get_cached_result(StateOn(disk), req.instruction, req.page_url,
                                       req.page_title, ttl, now)
              wrote == KeyOf(req) \in DOMAIN caches /\ KeyOf(req) \notin DOMAIN out.st.dur
          IN  /\ disk # "ok" => wrote
              /\ SetState(out.st)
              /\ last' = [op |-> "get_cached_result", seq |-> ops + 1,
                          req |-> req, key |-> KeyOf(req), ttl |-> ttl,
                          ret |-> out.ret, disk |-> disk, at |-> now]
              /\ evicted' = EvictedBy(evicted, State, out.st, KeyOf(req))
    /\ ops' = ops + 1
    /\ UNCHANGED <<now, agent_vars, observe_vars>>
    /\ UNCHANGED peer_vars

ClearCache ==
    /\ ops < MaxOps
    /\ \E expired_only \in BOOLEAN, ttl \in TTLs, disk \in DiskOutcomes :
          LET out == clear_cache(StateOn(disk), expired_only, ttl, now)
          IN  /\ disk # "ok" => out.ret > 0
              /\ ~expired_only => ttl = 1
              /\ SetState(out.st)
              /\ last' = [op |-> "clear_cache", seq |-> ops + 1,
                          expired_only |-> expired_only, ttl |-> ttl,
                          ret |-> out.ret, disk |-> disk, at |-> now]
    /\ ops' = ops + 1
    /\ UNCHANGED <<now, evicted, agent_vars, observe_vars>>
    /\ UNCHANGED peer_vars

ImportCache ==
    /\ ops < MaxOps
    /\ \E import_file \in ImportFiles, disk \in DiskOutcomes :
          LET out == import_cache(StateOn(disk), import_file)
          IN  /\ disk # "ok" => import_file.kind = "data"
              /\ SetState(out.st)
              /\ last' = [op |-> "import_cache", seq |-> ops + 1,
                          import_file |-> import_file,
                          merged_count |-> out.merged_count, disk |-> disk,
                          at |-> now]
    /\ ops' = ops + 1
    /\ UNCHANGED <<now, evicted, agent_vars, observe_vars>>
    /\ UNCHANGED peer_vars

\* The process ends and a new StagehandCache is built on the same file.
Reopen ==
    /\ ops < MaxOps
    /\ SetState(new_cache(State, now))
    /\ last' = [op |-> "new_cache", seq |-> ops + 1, found |-> file_state, at |-> now]
    /\ ops' = ops + 1
    /\ evicted' = {}
    /\ UNCHANGED <<now, agent_vars, observe_vars>>
    /\ UNCHANGED peer_vars

NextStore == Tick \/ Store \/ Lookup \/ ClearCache \/ Reopen

\* A cache that is stored to, looked up, cleared and reopened.
SpecStore == InitStore /\ [][NextStore]_vars

NextImport == Store \/ Lookup \/ ImportCache

\* A cache that is stored to, looked up and imported into.
SpecImport == InitStore /\ [][NextImport]_vars

\* ------------------------------------------- search and the statistics
\* keyword in text
Contains(text, keyword) ==
    \E i \in 0..(Len(text) - Len(keyword)) :
        SubSeq(text, i + 1, i + Len(keyword)) = keyword

\* cache_item.get(field, "")
TextOf(cache_item, field) ==
    IF field \in DOMAIN cache_item THEN cache_item[field] ELSE <<>>

search_cache_case_sensitive(st, keyword) ==
    { <<k, st.dur[k]>> : k \in
        { c \in DOMAIN st.dur :
            \/ Contains(TextOf(st.dur[c], "instruction"), keyword)
            \/ Contains(TextOf(st.dur[c], "page_url"), keyword)
            \/ Contains(IF "result" \in DOMAIN st.dur[c]
                        THEN TextOf(st.dur[c]["result"], "description")
                        ELSE <<>>, keyword) } }

\* search_cache(cache_manager, keyword): the matched (cache_key, cache_item)
\* pairs it lists.
search_cache(st, keyword) ==
    { <<k, st.dur[k]>> : k \in
        { c \in DOMAIN st.dur :
            LET instruction == Lower(TextOf(st.dur[c], "instruction"))
                page_url == Lower(TextOf(st.dur[c], "page_url"))
                description ==
                    Lower(IF "result" \in DOMAIN st.dur[c]
                          THEN TextOf(st.dur[c]["result"], "description")
                          ELSE <<>>)
            IN  \/ Contains(instruction, Lower(keyword))
                \/ Contains(page_url, Lower(keyword))
                \/ Contains(description, Lower(keyword)) } }

\* sum(cache.get("hit_count", 0) for cache in caches.values())
RECURSIVE SumHits(_, _)
SumHits(d, ks) ==
    IF ks = {} THEN 0
    ELSE LET k == CHOOSE x \in ks : TRUE
         IN  (IF "hit_count" \in DOMAIN d[k] THEN d[k]["hit_count"] ELSE 0)
                 + SumHits(d, ks \ {k})

get_cache_stats_counting_mirror(st) ==
    [ total_caches |-> Cardinality(DOMAIN st.mem),
      total_hits |-> SumHits(st.dur, DOMAIN st.dur),
      memory_cache_size |-> Cardinality(DOMAIN st.mem),
      version |-> st.meta.version ]

\* get_cache_stats()
get_cache_stats(st) ==
    [ total_caches |-> Cardinality(DOMAIN st.dur),
      total_hits |-> SumHits(st.dur, DOMAIN st.dur),
      memory_cache_size |-> Cardinality(DOMAIN st.mem),
      version |-> st.meta.version ]

\* The keywords searched for: the empty one, one in another case than the
\* instructions, one with a blank, one of the URLs and one of the
\* descriptions in another case, and the page title, which is not searched.
Keywords == {<<>>, <<"A">>, <<"A", " ">>, <<"U">>, <<"É">>, <<"t">>}

SearchCache ==
    /\ \E keyword \in Keywords :
          last' = [op |-> "search_cache", seq |-> ops + 1, keyword |-> keyword,
                   ret |-> search_cache(State, keyword), at |-> now]
    /\ ops' = ops + 1
    /\ UNCHANGED <<memory_cache, caches, shared, file_caches, now, evicted>>
    /\ UNCHANGED <<cache_meta, file_meta, file_state>>
    /\ UNCHANGED <<agent_vars, observe_vars>>
    /\ UNCHANGED peer_vars

GetCacheStats ==
    /\ last' = [op |-> "get_cache_stats", seq |-> ops + 1,
                ret |-> get_cache_stats(State), at |-> now]
    /\ ops' = ops + 1
    /\ UNCHANGED <<memory_cache, caches, shared, file_caches, now, evicted>>
    /\ UNCHANGED <<cache_meta, file_meta, file_state>>
    /\ UNCHANGED <<agent_vars, observe_vars>>
    /\ UNCHANGED peer_vars

\* The number of operations of a run of the management tool.
MaxToolOps == 3

NextTool ==
    \/ ops < MaxToolOps /\ Tick
    \/ ops < MaxToolOps /\ SetCache
    \/ ops < MaxToolOps /\ GetCachedResult
    \/ ops < MaxToolOps /\ ClearCache
    \/ ops < MaxToolOps /\ ImportCache
    \/ ops < MaxToolOps /\ SearchCache
    \/ ops < MaxToolOps /\ GetCacheStats

\* A cache that is stored to, looked up, cleared, imported into, searched
\* and asked for its statistics.
SpecTool == Init /\ [][NextTool]_vars

\* ------------------------------------------- two caches on the same file
\* The second cache as one of its operations finds it: its own mirror and
\* durable map, and the file both caches write.
PeerState(disk) ==
    CacheState(peer.mem, peer.dur, peer.shared, file_caches)
        @@ Storage(peer.meta, file_meta, file_state, disk)

SetPeerState(st) ==
    /\ peer' = [mem |-> st.mem, dur |-> st.dur, shared |-> st.shared, meta |-> st.meta]
    /\ file_caches' = st.file
    /\ file_meta' = st.file_meta
    /\ file_state' = st.file_state

\* Both caches are built on the file before either is used.
InitShared ==
    /\ InitStoreCache
    /\ LET st == new_cache(State, 0)
       IN  peer = [mem |-> st.mem, dur |-> st.dur, shared |-> st.shared, meta |-> st.meta]
    /\ export_file = NoExport

\* set_cache of the second cache.
PeerStore ==
    /\ ops < MaxOps
    /\ \E req \in StoreRequests, result \in Results, disk \in DiskOutcomes :
          /\ SetPeerState(set_cache(PeerState(disk), req.instruction, req.page_url,
                                    result, req.page_title, now))
          /\ last' = [op |-> "peer_set_cache", seq |-> ops + 1, req |-> req,
                      key |-> KeyOf(req), result |-> result, disk |-> disk,
                      at |-> now]
    /\ ops' = ops + 1
    /\ UNCHANGED <<memory_cache, caches, shared, cache_meta, now, evicted>>
    /\ UNCHANGED <<agent_vars, observe_vars>>
    /\ UNCHANGED export_file

\* The second cache is built anew on the file.
PeerOpen ==
    /\ ops < MaxOps
    /\ SetPeerState(new_cache(PeerState("ok"), now))
    /\ last' = [op |-> "peer_new_cache", seq |-> ops + 1, found |-> file_state,
                at |-> now]
    /\ ops' = ops + 1
    /\ UNCHANGED <<memory_cache, caches, shared, cache_meta, now, evicted>>
    /\ UNCHANGED <<agent_vars, observe_vars>>
    /\ UNCHANGED export_file

\* The number of operations of the two caches together.
MaxSharedOps == 3

NextShared ==
    \/ ops < MaxSharedOps /\ Store
    \/ ops < MaxSharedOps /\ PeerStore
    \/ ops < MaxSharedOps /\ PeerOpen

\* Two caches on one file, used one operation after the other.
SpecShared == InitShared /\ [][NextShared]_vars

\* ------------------------------------------------- export and import
export_cache_mirror(st, old_file) ==
    IF st.disk = "ok" THEN ImportFile("data", st.mem)
    ELSE IF st.disk = "torn" THEN ImportFile("unparsable", EmptyDict)
    ELSE old_file

\* export_cache(cache_manager, export_file): json.dump of cache_data to the
\* file, which held old_file; a failure is printed and the file is as the
\* failed write left it.
export_cache(st, old_file) ==
    IF st.disk = "ok" THEN ImportFile("data", st.dur)
    ELSE IF st.disk = "torn" THEN ImportFile("unparsable", EmptyDict)
    ELSE old_file

\* A second cache with a backing file of its own, built when that file does
\* not exist; imported is the file it imported last.
EmptyPeer ==
    [ mem |-> EmptyDict, dur |-> EmptyDict, shared |-> {}, meta |-> DefaultMeta(0),
      file |-> EmptyDict, file_meta |-> NoFileMeta, file_state |-> "absent",
      imported |-> None ]

\* The second cache as an operation on it finds it.
OwnPeerState(disk) ==
    CacheState(peer.mem, peer.dur, peer.shared, peer.file)
        @@ Storage(peer.meta, peer.file_meta, peer.file_state, disk)

InitExport ==
    /\ InitCache
    /\ InitNoAgent
    /\ InitNoObserve
    /\ peer = EmptyPeer
    /\ export_file = NoExport

\* The tool's export of the first cache.
ExportCache ==
    /\ \E disk \in DiskOutcomes :
          /\ export_file' = export_cache(StateOn(disk), export_file)
          /\ last' = [op |-> "export_cache", seq |-> ops + 1, disk |-> disk, at |-> now]
    /\ ops' = ops + 1
    /\ UNCHANGED <<memory_cache, caches, shared, file_caches, now, evicted>>
    /\ UNCHANGED <<cache_meta, file_meta, file_state>>
    /\ UNCHANGED <<agent_vars, observe_vars, peer>>

\* The tool's import of the exported file into the second cache.
PeerImport ==
    /\ \E disk \in DiskOutcomes :
          LET out == import_cache(OwnPeerState(disk), export_file)
          IN  /\ disk # "ok" => export_file.kind = "data"
              /\ peer' = [ mem |-> out.st.mem, dur |-> out.st.dur,
                           shared |-> out.st.shared, meta |-> out.st.meta,
                           file |-> out.st.file, file_meta |-> out.st.file_meta,
                           file_state |-> out.st.file_state,
                           imported |-> Some(export_file) ]
              /\ last' = [op |-> "peer_import_cache", seq |-> ops + 1,
                          import_file |-> export_file,
                          merged_count |-> out.merged_count, disk |-> disk,
                          at |-> now]
    /\ ops' = ops + 1
    /\ UNCHANGED <<memory_cache, caches, shared, file_caches, now, evicted>>
    /\ UNCHANGED <<cache_meta, file_meta, file_state>>
    /\ UNCHANGED <<agent_vars, observe_vars, export_file>>

\* The number of operations of a run with an export.
MaxExportOps == 4

NextExport ==
    \/ ops < MaxExportOps /\ Tick
    \/ ops < MaxExportOps /\ SetCache
    \/ ops < MaxExportOps /\ GetCachedResult
    \/ ops < MaxExportOps /\ ExportCache
    \/ ops < MaxExportOps /\ PeerImport

\* A cache that is used and exported, and a second one that imports the
\* exported file.
SpecExport == InitExport /\ [][NextExport]_vars

\* ====================================================================
\* Properties of StagehandCache
\* ====================================================================

\* The step is a call of get_cached_result.
IsLookupStep == last'.op = "get_cached_result" /\ last'.seq # last.seq

\* C1 (round trip): a set_cache followed, with or without time passing, by
\* a get_cached_result of the same instruction, URL and title while less
\* than ttl has elapsed since the store returns a result equal to the stored
\* one in selector, description, method, arguments and backend_node_id.
C1_RoundTrip ==
    [][ ( /\ last.op = "set_cache"
          /\ IsLookupStep
          /\ last'.req = last.req
          /\ now - last.at < last'.ttl )
        => last'.ret = Hit(last.result) ]_vars

\* A hit that returns Result2 (every optional field set) one tick after the
\* store, on its first lookup.
C1_Witness ==
    /\ last.op = "get_cached_result"
    /\ last.ret = Hit(Result2)
    /\ last.key \in DOMAIN caches
    /\ caches[last.key]["created_at"] = isoformat(last.at - 1)
    /\ last.seq = 3

\* The request an entry was stored for and the request req are one logical
\* request: instructions equal after trimming and lower-casing, URLs equal,
\* titles equal with None read as "".
SameLogicalRequest(req, entry) ==
    /\ Lower(Strip(req.instruction)) = Lower(Strip(entry["instruction"]))
    /\ req.page_url = entry["page_url"]
    /\ (IF req.page_title = None THEN <<>> ELSE req.page_title[1]) = entry["page_title"]

\* C2 (key derivation): the request of the last operation addresses the
\* stored entry of key k if and only if it is the same logical request as
\* the one the entry was stored for; a lookup whose logical request has no
\* entry in either layer is a miss.
C2_KeyDerivation ==
    /\ \A k \in DOMAIN caches :
          last.op \in {"set_cache", "get_cached_result"}
              => ((last.key = k) <=> SameLogicalRequest(last.req, caches[k]))
    /\ ( /\ last.op = "get_cached_result"
         /\ \A k \in DOMAIN caches : ~SameLogicalRequest(last.req, caches[k])
         /\ \A k \in DOMAIN memory_cache :
               ~SameLogicalRequest(last.req, memory_cache[k]) )
       => last.ret = Miss

\* A hit for the request "\tA " with title "" on the entry stored for "a"
\* with no title, while entries of another instruction, URL or title exist.
C2_Witness ==
    /\ last.op = "get_cached_result"
    /\ last.req = Request(InstrA2, Url1, Some(<<>>))
    /\ last.ret.kind = "hit"
    /\ caches[last.key]["instruction"] = InstrA
    /\ Cardinality(DOMAIN caches) >= 2

\* The layer holds an entry of key k that is fresh under ttl at time t.
FreshIn(layer, k, ttl, t) ==
    /\ k \in DOMAIN layer
    /\ t - fromisoformat(layer[k]["created_at"]) < ttl

\* C3 (TTL boundary): a lookup with TTL S at time t is a hit if and only if
\* a layer holds an entry of the key created at a time T with t - T < S; at
\* t - T >= S, the boundary t = T + S included, it is a miss.
C3_TtlBoundary ==
    [][ IsLookupStep =>
          ( (last'.ret.kind = "hit")
              <=> ( \/ FreshIn(memory_cache, last'.key, last'.ttl, now)
                    \/ FreshIn(caches, last'.key, last'.ttl, now) ) )
      ]_vars

\* A miss exactly at the boundary t = T + S: the mirror still shows the
\* entry with its creation time.
C3_Witness ==
    /\ last.op = "get_cached_result"
    /\ last.ret = Miss
    /\ last.key \in DOMAIN memory_cache
    /\ last.at - fromisoformat(memory_cache[last.key]["created_at"]) = last.ttl

\* C4 (eviction on stale lookup): a key whose entry a lookup found expired
\* and deleted is in neither layer, and every lookup of it is a miss, until
\* set_cache is called for it again.
C4_EvictedStaysMiss ==
    \A k \in evicted :
        /\ k \notin DOMAIN memory_cache
        /\ k \notin DOMAIN caches
        /\ (last.op = "get_cached_result" /\ last.key = k) => last.ret = Miss

\* C4, the behaviour alone: a lookup of an evicted key is a miss.
C4_EvictedLookupMisses ==
    \A k \in evicted :
        (last.op = "get_cached_result" /\ last.key = k) => last.ret = Miss

\* C10 (lookup never raises): get_cached_result returns a result or a miss.
C10_LookupNeverRaises ==
    last.op = "get_cached_result" => last.ret.kind \in {"hit", "miss"}

\* ====================================================================
\* Properties of ObserveHandler.observe
\* ====================================================================

\* The observe call of task t ends with this step.
ObserveEnds(t) == obs[t].pc # "done" /\ obs'[t].pc = "done"

\* C5 (fail closed on an invalid selector): when observe finds a fresh entry
\* whose selector does not resolve, the model is consulted and, when the
\* call ends, the entry is gone from both layers unless this observe stored
\* a new result under the key.
C5_InvalidSelectorEvicted ==
    [][ \A t \in Tasks :
           (ObserveEnds(t) /\ obs'[t].lookup = "invalid")
               => /\ obs'[t].model_calls = 1
                  /\ \/ obs'[t].stored
                     \/ /\ KeyOf(obs[t].req) \notin DOMAIN caches'
                        /\ KeyOf(obs[t].req) \notin DOMAIN memory_cache' ]_vars

\* ====================================================================
\* Properties of Agent.execute
\* ====================================================================

\* The action reported failure: it returned success = False or it raised.
Failed(entry) == entry.outcome \in {"failure", "raise"}

\* C6 (replay abort): the replay performs the cached actions in recorded
\* order, each at most once, and performs none after one that failed.
C6_ReplayAbort ==
    \A t \in Tasks :
        \A i \in 1..(Len(replay_log[t]) - 1) :
            /\ replay_log[t][i].index < replay_log[t][i + 1].index
            /\ ~Failed(replay_log[t][i])

\* A sequence of three actions whose second fails: the execute is over and
\* the third was never performed.
C6_Witness ==
    \E t \in Tasks :
        /\ pc[t] = "idle"
        /\ cur[t].fallback = "replay_failed"
        /\ Len(cur[t].executable) = 3
        /\ replay_log[t] = << [index |-> 1, outcome |-> "success"],
                              [index |-> 2, outcome |-> "failure"] >>

\* C7 (all or nothing): when execute has returned the cache-hit result,
\* every action of the cached sequence was performed, in recorded order,
\* and none failed.
C7_AllOrNothing ==
    \A t \in Tasks :
        (pc[t] = "idle" /\ agent_result[t].kind = "cache_hit"
                        /\ agent_result[t].execute = cur[t].execute)
            => /\ Len(replay_log[t]) = Len(agent_result[t].actions)
               /\ \A i \in 1..Len(replay_log[t]) :
                     replay_log[t][i].index = i /\ ~Failed(replay_log[t][i])

\* C8 (replay fallback): an execute whose cache lookup raised, or whose
\* replay failed or raised, ends without propagating the error, after
\* exactly one fresh model run and without a second replay, and returns that
\* run's result when the run returned one.
C8_ReplayFallback ==
    \A t \in Tasks :
        (pc[t] = "idle" /\ cur[t].execute > 0 /\ cur[t].fallback # "none")
            => /\ agent_result[t].kind \in {"model", "model_error"}
               /\ agent_result[t].execute = cur[t].execute
               /\ cur[t].runs = 1
               /\ cur[t].run.kind = "result"
                      => /\ agent_result[t].kind = "model"
                         /\ agent_result[t].completed = cur[t].run.completed
                         /\ agent_result[t].actions = cur[t].run.actions
               /\ \A i, j \in 1..Len(replay_log[t]) :
                     i # j => replay_log[t][i].index # replay_log[t][j].index

\* An execute whose replay failed at its second action and that returned
\* the result of the one model run.
C8_Witness ==
    \E t \in Tasks :
        /\ pc[t] = "idle"
        /\ cur[t].fallback = "replay_failed"
        /\ Len(replay_log[t]) = 2
        /\ cur[t].runs = 1
        /\ agent_result[t].kind = "model"
        /\ agent_result[t].actions = <<TypeText>>

\* C9 (discard after a failed replay): a cache entry whose replay has
\* failed is never replayed by a later execute.
C9_FailedNeverReplayed ==
    [][ \A t \in Tasks :
           (pc[t] = "idle" /\ pc'[t] = "replay") => cur'[t].entry_id \notin failed_ids ]_vars

\* ====================================================================
\* Properties of the store: import, clear, load and save
\* ====================================================================

IsImportStep == last'.op = "import_cache" /\ last'.seq # last.seq

IsStoreStep == last'.op = "set_cache" /\ last'.seq # last.seq

IsClearStep == last'.op = "clear_cache" /\ last'.seq # last.seq

\* C11 (import merge policy): an import that reads its file adds exactly the
\* imported keys the durable map does not have, each with the imported
\* entry, leaves every entry the map had as it was, and reports the number
\* of keys added.
C11_ImportMerge ==
    [][ (IsImportStep /\ last'.import_file.kind = "data")
            => LET imported == last'.import_file.caches
                   added == DOMAIN imported \ DOMAIN caches
               IN  /\ DOMAIN caches' = DOMAIN caches \cup added
                   /\ \A k \in DOMAIN caches : caches'[k] = caches[k]
                   /\ \A k \in added : caches'[k] = imported[k]
                   /\ last'.merged_count = Some(Cardinality(added)) ]_vars

\* An import of two keys, one held locally with other field values and one
\* new: one entry was merged and the local one is as it was.
C11_Witness ==
    /\ last.op = "import_cache"
    /\ last.merged_count = Some(1)
    /\ DOMAIN last.import_file.caches = {KeyA, KeyB}
    /\ DOMAIN caches = {KeyA, KeyB}
    /\ caches[KeyA] # last.import_file.caches[KeyA]
    /\ caches[KeyA].hit_count = 0
    /\ caches[KeyB] = EntryB

\* The fields an entry needs for a lookup to use it.
WellFormedEntry(e) == {"result", "created_at", "hit_count"} \subseteq DOMAIN e

\* C12 (import skips malformed entries): an imported entry that lacks
\* required fields is not added to the durable map and is not counted; the
\* count is the number of well-formed entries added.
C12_ImportSkipsMalformed ==
    [][ (IsImportStep /\ last'.import_file.kind = "data")
            => LET imported == last'.import_file.caches
                   new_keys == DOMAIN imported \ DOMAIN caches
               IN  /\ \A k \in new_keys :
                         ~WellFormedEntry(imported[k]) => k \notin DOMAIN caches'
                   /\ last'.merged_count =
                          Some(Cardinality({k \in new_keys : WellFormedEntry(imported[k])}))
      ]_vars

\* C13 (hit accounting): a lookup that returns a hit raises the hit_count of
\* the entry in the durable map by exactly 1 and sets its last_used.
C13_HitCountsOne ==
    [][ (IsLookupStep /\ last'.ret.kind = "hit" /\ last'.key \in DOMAIN caches)
            => /\ last'.key \in DOMAIN caches'
               /\ caches'[last'.key].hit_count = caches[last'.key].hit_count + 1
               /\ caches'[last'.key].last_used = isoformat(now) ]_vars

\* C14 (durability of every mutation): when no write of the file fails, the
\* entries of the backing file are those of the durable map after every
\* operation.
C14_FileHoldsDurableMap == file_caches = caches

\* C15 (store is last-write-wins): a store puts the new entry, with
\* hit_count 0 and the time of the store as its creation time, under the key
\* in both layers, whatever the key held, and leaves the other keys of the
\* durable map alone; a lookup of the key that follows within the TTL
\* returns the stored result.
C15_LastWriteWins ==
    [][ /\ IsStoreStep
            => LET k == last'.key
               IN  /\ k \in DOMAIN memory_cache' /\ k \in DOMAIN caches'
                   /\ memory_cache'[k] = caches'[k]
                   /\ caches'[k].hit_count = 0
                   /\ caches'[k].created_at = isoformat(now)
                   /\ create_observe_result_from_cache(caches'[k].result) = last'.result
                   /\ DOMAIN caches' = DOMAIN caches \cup {k}
                   /\ \A j \in DOMAIN caches \ {k} : caches'[j] = caches[j]
        /\ (IsLookupStep /\ last.op = "set_cache" /\ last'.key = last.key
                /\ now - last.at < last'.ttl)
            => last'.ret = Hit(last.result) ]_vars

\* A store over an entry that held another result and had been hit.
C15_Witness ==
    /\ last.op = "set_cache"
    /\ last.prior # None
    /\ last.prior[1].hit_count > 0
    /\ last.prior[1].result.selector # last.result.selector
    /\ caches[last.key].hit_count = 0

\* C16 (eviction count, expired only): after clear_cache(expired_only=True,
\* ttl) no layer holds an entry that is not fresh under ttl.
C16_ClearRemovesExpired ==
    (last.op = "clear_cache" /\ last.expired_only)
        => /\ \A k \in DOMAIN caches : is_cache_valid(caches[k], last.ttl, last.at)
           /\ \A k \in DOMAIN memory_cache :
                 is_cache_valid(memory_cache[k], last.ttl, last.at)

\* C17 (load degrades to empty): a cache built on a file that is absent or
\* does not parse has no entry, version "1.0" and a creation timestamp, and
\* the store that follows puts its entry into that structure.
C17_LoadDegrades ==
    [][ /\ (last.op = "new_cache" /\ last.found # "ok")
            => /\ caches = EmptyDict /\ memory_cache = EmptyDict
               /\ cache_meta.version = "1.0"
               /\ cache_meta.created_at = isoformat(last.at)
        /\ (last.op = "new_cache" /\ last.found # "ok" /\ IsStoreStep)
            => /\ DOMAIN caches' = {last'.key}
               /\ cache_meta' = cache_meta
               /\ last'.disk = "ok" => (file_state' = "ok" /\ file_caches' = caches') ]_vars

\* A cache reopened on a file that a torn write left unparsable: it is empty.
C17_Witness ==
    /\ last.op = "new_cache"
    /\ last.seq > 0
    /\ last.found = "corrupt"
    /\ caches = EmptyDict
    /\ cache_meta.version = "1.0"

\* C18 (save failures are swallowed): a store, a clear or an evicting lookup
\* whose write of the file fails ends as the same operation does when the
\* write succeeds: same return, same in-memory mirror, same durable map.
C18_SaveFailureSwallowed ==
    [][ /\ (IsStoreStep /\ last'.disk # "ok")
            => LET ok == set_cache(State, last'.req.instruction, last'.req.page_url,
                                   last'.result, last'.req.page_title, now)
               IN  memory_cache' = ok.mem /\ caches' = ok.dur
        /\ (IsClearStep /\ last'.disk # "ok")
            => LET ok == clear_cache(State, last'.expired_only, last'.ttl, now)
               IN  memory_cache' = ok.st.mem /\ caches' = ok.st.dur
                   /\ last'.ret = ok.ret
        /\ (IsLookupStep /\ last'.disk # "ok")
            => LET ok == get_cached_result(State, last'.req.instruction,
                                           last'.req.page_url, last'.req.page_title,
                                           last'.ttl, now)
               IN  memory_cache' = ok.st.mem /\ caches' = ok.st.dur
                   /\ last'.ret = ok.ret /\ last'.ret = Miss ]_vars

\* A store whose write failed: the entry is in both layers and not in the
\* file.
C18_Witness ==
    /\ last.op = "set_cache"
    /\ last.disk = "fail"
    /\ last.key \in DOMAIN caches /\ last.key \in DOMAIN memory_cache
    /\ file_state = "ok"
    /\ last.key \notin DOMAIN file_caches

\* ====================================================================
\* Properties of the selector check
\* ====================================================================

\* The path a recorded selector names.
RecordedPath(xpath) == IF Head(xpath) = "xpath=" THEN Tail(xpath) ELSE xpath

\* C19 (selector validation): validate_cached_xpath returns true exactly
\* when the resolution of the recorded selector does not raise and gives at
\* least one element; it returns false when the resolution raises.
C19_SelectorValidation ==
    last.op = "validate_cached_xpath"
        => /\ last.ret \in BOOLEAN
           /\ last.ret <=> (~last.page.broken /\ RecordedPath(last.xpath) \in last.page.live)

\* The selector names an element of the page and its resolution raises: the
\* check returned false.
C19_Witness ==
    /\ last.op = "validate_cached_xpath"
    /\ last.page.broken
    /\ Head(last.xpath) = "xpath="
    /\ RecordedPath(last.xpath) \in last.page.live
    /\ last.ret = FALSE

\* C20 (bounded validation): an observe request that waits for the selector
\* check is over, or with the model, some time later, also when the driver
\* never answers the resolution call.
C20_ValidationBounded ==
    \A t \in Tasks :
        (obs[t].pc = "validating")
            ~> (obs[t].pc \in {"tree", "selectors", "overlay", "done"})

\* ====================================================================
\* Properties of observe on a cache read from its file
\* ====================================================================

\* The observe handler builds its cache on the default file, so observe
\* starts on whatever that file holds.
SpecObserveLoaded == InitLoaded /\ [][NextObserve]_vars

\* C21 (observe hit/miss protocol): an observe request with the cache on
\* ends in one of two ways: on a fresh hit whose selector is valid the model
\* was not called and the list returned is exactly the cached result;
\* otherwise the model was called exactly once and observe returned its
\* list, unless the overlay asked for raised. The cache never aborts the
\* request.
C21_ObserveProtocol ==
    \A t \in Tasks :
        (obs[t].pc = "done" /\ obs[t].use_cache)
            => \/ /\ obs[t].lookup = "valid"
                  /\ obs[t].model_calls = 0
                  /\ obs[t].ret = [kind |-> "results", results |-> <<obs[t].cached[1]>>]
               \/ /\ obs[t].lookup \in {"miss", "invalid"}
                  /\ obs[t].model_calls = 1
                  /\ \/ obs[t].ret.kind = "results"
                     \/ obs[t].draw_overlay /\ obs[t].ret = Raised

\* C23 (mirror invariant): every key of the in-memory mirror is a key of the
\* durable map, and both hold the same entry for it.
C23_MirrorWithinDurable ==
    \A k \in DOMAIN memory_cache :
        k \in DOMAIN caches /\ caches[k] = memory_cache[k]

\* C24 (inter-action delay): a replay that is over has slept once between
\* each two consecutive performed actions and not after the last action it
\* performed, also when that action is the one that failed.
C24_DelayBetweenActions ==
    \A t \in Tasks :
        (pc[t] # "replay" /\ Len(replay_log[t]) > 0)
            => cur[t].delays = Len(replay_log[t]) - 1

\* C28 (hit count only on usable hit): an observe request that finds a fresh
\* entry whose selector fails the check, and stores nothing in its place,
\* leaves the hit_count and the last_used of that entry as they were when
\* the request began.
C28_InvalidHitNotCounted ==
    [][ \A t \in Tasks :
           (ObserveEnds(t) /\ obs'[t].lookup = "invalid" /\ ~obs'[t].stored
                           /\ obs[t].entry # None)
               => LET k == KeyOf(obs[t].req)
                  IN  /\ k \in DOMAIN caches'
                      /\ caches'[k].hit_count = obs[t].entry[1].hit_count
                      /\ caches'[k].last_used = obs[t].entry[1].last_used ]_vars

\* C30 (lookup miss is read-only): a lookup of a key that neither layer
\* holds is a miss, leaves both layers as they were and leaves the file as
\* it was.
C30_MissReadOnly ==
    [][ (IsLookupStep /\ last'.key \notin DOMAIN memory_cache
                      /\ last'.key \notin DOMAIN caches)
            => /\ last'.ret = Miss
               /\ UNCHANGED <<memory_cache, caches, shared, cache_meta>>
               /\ UNCHANGED <<file_caches, file_meta, file_state>> ]_vars

\* A lookup missed on a key that neither layer holds while the durable map
\* holds another entry and no file was written yet.
C30_Witness ==
    /\ last.op = "get_cached_result"
    /\ last.ret = Miss
    /\ last.key \notin DOMAIN memory_cache
    /\ last.key \notin DOMAIN caches
    /\ last.key \notin evicted
    /\ caches # EmptyDict

\* C29 (clear all): clear_cache without expired_only returns the number of
\* entries the durable map held and leaves the durable map and the mirror
\* empty; when it removed nothing the file is left as it was.
C29_ClearAll ==
    [][ (IsClearStep /\ ~last'.expired_only)
            => /\ last'.ret = Cardinality(DOMAIN caches)
               /\ caches' = EmptyDict
               /\ memory_cache' = EmptyDict
               /\ last'.ret = 0
                      => UNCHANGED <<file_caches, file_meta, file_state>> ]_vars

\* A clear of everything removed two entries and wrote the empty map.
C29_Witness ==
    /\ last.op = "clear_cache"
    /\ ~last.expired_only
    /\ last.ret = 2
    /\ last.disk = "ok"
    /\ caches = EmptyDict /\ memory_cache = EmptyDict
    /\ file_state = "ok" /\ file_caches = EmptyDict


\* ====================================================================
\* Properties of the keys, the search and the statistics
\* ====================================================================

\* The key of the logical request an entry records.
DerivedKey(entry) ==
    <<Lower(Strip(entry.instruction)), entry.page_url, entry.page_title>>

\* C22 (key stability): in every reachable state, after any stores,
\* lookups, clears and imports, each entry of the durable map is stored
\* under the key derived from its own instruction, page_url and page_title.
C22_KeyStability ==
    \A k \in DOMAIN caches : k = DerivedKey(caches[k])

\* text holds keyword at some offset, case aside: the lower case of the
\* one holds, character by character, the lower case of the other.
Matches(text, keyword) ==
    \E offset \in 0..Len(Lower(text)) :
        /\ offset + Len(Lower(keyword)) <= Len(Lower(text))
        /\ \A j \in 1..Len(Lower(keyword)) :
              Lower(text)[offset + j] = Lower(keyword)[j]

IsSearchStep == last'.op = "search_cache" /\ last'.seq # last.seq

\* C26 (search): search gives exactly the (key, entry) pairs of the durable
\* map whose instruction, page URL or result description holds the keyword,
\* case aside, and changes neither layer nor the file.
C26_Search ==
    [][ IsSearchStep
            => /\ \A pair \in last'.ret :
                      pair[1] \in DOMAIN caches /\ pair[2] = caches[pair[1]]
               /\ \A k \in DOMAIN caches :
                      (<<k, caches[k]>> \in last'.ret)
                          <=> \/ Matches(caches[k].instruction, last'.keyword)
                              \/ Matches(caches[k].page_url, last'.keyword)
                              \/ /\ "result" \in DOMAIN caches[k]
                                 /\ Matches(caches[k].result.description, last'.keyword)
               /\ UNCHANGED <<memory_cache, caches, shared, cache_meta>>
               /\ UNCHANGED <<file_caches, file_meta, file_state>> ]_vars

\* A search in another case than the stored instruction found that entry and
\* left out an entry that holds the keyword in no searched field.
C26_Witness ==
    /\ last.op = "search_cache"
    /\ last.keyword = <<"A", " ">>
    /\ \E pair \in last.ret : pair[2].instruction = InstrA2
    /\ \E k \in DOMAIN caches : <<k, caches[k]>> \notin last.ret

IsStatsStep == last'.op = "get_cache_stats" /\ last'.seq # last.seq

\* The hit counts of the entries of d added up level by level: the entries
\* hit at least h times, for h = 1, 2, ...; an entry without a hit_count is
\* at no level.
RECURSIVE HitsFrom(_, _)
HitsFrom(d, h) ==
    LET level == {k \in DOMAIN d : "hit_count" \in DOMAIN d[k] /\ d[k].hit_count >= h}
    IN  IF level = {} THEN 0 ELSE Cardinality(level) + HitsFrom(d, h + 1)

\* C27 (statistics): get_cache_stats reports the number of entries of the
\* durable map, the sum of their hit_count and the number of entries of the
\* mirror, and changes neither layer nor the file.
C27_Statistics ==
    [][ IsStatsStep
            => /\ last'.ret.total_caches = Cardinality(DOMAIN caches)
               /\ last'.ret.memory_cache_size = Cardinality(DOMAIN memory_cache)
               /\ last'.ret.total_hits = HitsFrom(caches, 1)
               /\ UNCHANGED <<memory_cache, caches, shared, cache_meta>>
               /\ UNCHANGED <<file_caches, file_meta, file_state>> ]_vars

\* Statistics taken when the mirror and the durable map differ in size and
\* entries were hit.
C27_Witness ==
    /\ last.op = "get_cache_stats"
    /\ last.ret.total_caches # last.ret.memory_cache_size
    /\ last.ret.total_hits > 0


\* ====================================================================
\* Properties of two caches on one file
\* ====================================================================

\* C25 (serialized sharing of one cache file): when one cache stores a key
\* and then the other cache stores another key, one operation after the
\* other and each with its write of the file succeeding, the file holds both
\* keys afterwards.
C25_SerializedSharing ==
    [][ ( /\ last'.seq # last.seq
          /\ \/ last.op = "set_cache" /\ last'.op = "peer_set_cache"
             \/ last.op = "peer_set_cache" /\ last'.op = "set_cache"
          /\ last.disk = "ok" /\ last'.disk = "ok"
          /\ last.key # last'.key )
            => /\ file_state' = "ok"
               /\ {last.key, last'.key} \subseteq DOMAIN file_caches' ]_vars


\* ====================================================================
\* Properties of export and import
\* ====================================================================

IsExportStep == last'.op = "export_cache" /\ last'.seq # last.seq

IsPeerImportStep == last'.op = "peer_import_cache" /\ last'.seq # last.seq

\* C31 (export/import round trip and idempotence): an export that is written
\* holds the keys and entries of the exporting cache's durable map; the
\* import of it into an empty cache gives that cache those keys and entries;
\* the import of the same file a second time merges 0 entries and leaves the
\* importing cache's store as it was.
C31_ExportImportRoundTrip ==
    [][ /\ (IsExportStep /\ last'.disk = "ok")
            => export_file' = ImportFile("data", caches)
        /\ (IsPeerImportStep /\ export_file.kind = "data" /\ peer.dur = EmptyDict)
            => /\ peer'.dur = export_file.caches
               /\ last'.merged_count = Some(Cardinality(DOMAIN export_file.caches))
        /\ (IsPeerImportStep /\ export_file.kind = "data"
                             /\ peer.imported = Some(export_file))
            => /\ last'.merged_count = Some(0)
               /\ peer'.dur = peer.dur
               /\ peer'.mem = peer.mem ]_vars

\* The second cache has imported twice the export of a cache that holds an
\* entry: it holds the entries of the first cache, its file has them, and
\* the second import merged none.
C31_Witness ==
    /\ last.op = "peer_import_cache"
    /\ last.merged_count = Some(0)
    /\ last.import_file.kind = "data"
    /\ peer.dur = caches
    /\ Cardinality(DOMAIN caches) >= 1
    /\ peer.file_state = "ok" /\ peer.file = peer.dur


\* ====================================================================
\* Properties of what observe stores
\* ====================================================================

\* The five fields set_cache records of an ObserveResult.
StoredFields(r) ==
    [ selector |-> r.selector, description |-> r.description, method |-> r.method,
      arguments |-> r.arguments, backend_node_id |-> r.backend_node_id ]

\* The observe call of task t gets its selectors and stores with this step.
IsModelStoreStep(t) == obs[t].pc = "selectors" /\ obs'[t].pc \in {"overlay", "done"}

\* C32 (what observe stores): a model-backed observe with the cache on
\* stores, of a non-empty list, exactly the first element under the
\* request's key, in place of any entry there, and touches no other key; an
\* empty list leaves the cache as it was; the list observe returns, at once
\* or after the overlay, is the model's, also when the write of the file
\* fails.
C32_ObserveStoresFirst ==
    [][ \A t \in Tasks :
         /\ (obs[t].pc = "overlay" /\ obs'[t].pc = "done" /\ obs[t].use_cache)
               => /\ \/ obs'[t].ret = [kind |-> "results", results |-> obs[t].answer]
                     \/ obs'[t].ret = Raised
                  /\ UNCHANGED <<memory_cache, caches, shared, cache_meta>>
                  /\ UNCHANGED <<file_caches, file_meta, file_state>>
         /\ (IsModelStoreStep(t) /\ obs[t].use_cache)
               => LET k == KeyOf(obs[t].req)
                      elements == obs'[t].answer
                  IN  /\ obs'[t].pc = "done"
                             => obs'[t].ret = [kind |-> "results", results |-> elements]
                      /\ elements # <<>>
                             => /\ k \in DOMAIN caches' /\ k \in DOMAIN memory_cache'
                                /\ caches'[k].result = StoredFields(elements[1])
                                /\ caches'[k].instruction = obs[t].req.instruction
                                /\ caches'[k].hit_count = 0
                                /\ memory_cache'[k] = caches'[k]
                                /\ \A c \in DOMAIN caches' \ {k} :
                                       c \in DOMAIN caches /\ caches'[c] = caches[c]
                                /\ DOMAIN caches' = DOMAIN caches \cup {k}
                      /\ elements = <<>>
                             => /\ UNCHANGED <<memory_cache, caches, shared, cache_meta>>
                                /\ UNCHANGED <<file_caches, file_meta, file_state>> ]_vars

\* The model gave two elements where the key held an entry whose selector
\* had failed the check; the first element took its place, the write of the
\* file did not succeed and observe returned both elements once the overlay
\* was drawn.
C32_Witness ==
    \E t \in Tasks :
        /\ obs[t].pc = "done"
        /\ obs[t].use_cache
        /\ obs[t].draw_overlay
        /\ obs[t].lookup = "invalid"
        /\ obs[t].answer = <<Result2, Result1>>
        /\ obs[t].ret = [kind |-> "results", results |-> obs[t].answer]
        /\ caches[KeyOf(obs[t].req)].result = StoredFields(Result2)
        /\ KeyOf(obs[t].req) \notin DOMAIN file_caches
           \/ file_caches[KeyOf(obs[t].req)].result # StoredFields(Result2)

\* C33 (cache bypass): observe with use_cache = False calls the model exactly
\* once and leaves the mirror, the durable map, with every hit_count, and
\* the file as they were.
C33_CacheBypass ==
    [][ \A t \in Tasks :
           (obs'[t] # obs[t] /\ ~obs'[t].use_cache)
               => /\ obs'[t].lookup = "bypass"
                  /\ ~obs'[t].stored
                  /\ obs'[t].pc = "done" => obs'[t].model_calls = 1
                  /\ UNCHANGED <<memory_cache, caches, shared, cache_meta>>
                  /\ UNCHANGED <<file_caches, file_meta, file_state>> ]_vars

\* observe without the cache, for a request whose entry both layers hold,
\* returned a result of the model that differs from the entry's.
C33_Witness ==
    \E t \in Tasks :
        /\ obs[t].pc = "done"
        /\ ~obs[t].use_cache
        /\ KeyOf(obs[t].req) \in DOMAIN caches
        /\ KeyOf(obs[t].req) \in DOMAIN memory_cache
        /\ obs[t].ret.kind = "results" /\ obs[t].ret.results # <<>>
        /\ caches[KeyOf(obs[t].req)].result # StoredFields(obs[t].ret.results[1])


\* ====================================================================
\* Properties of the model run and of what the Agent stores
\* ====================================================================

\* C34 (only successful sequences are cached): a sequence that execute has
\* stored in the agent cache comes from a model run that ended with a
\* successful action and holds only actions that reported success.
C34_OnlySuccessfulCached ==
    \A t \in Tasks :
        ( /\ pc[t] = "idle"
          /\ cur[t].runs = 1
          /\ cur[t].instruction \in DOMAIN agent_cache
          /\ agent_cache[cur[t].instruction].id = cur[t].execute )
            => /\ cur[t].run.kind = "result"
               /\ cur[t].run.ended = "success"
               /\ \A i \in 1..Len(cur[t].run.taken) : cur[t].run.taken[i].success

\* C35 (bounded model run): run_task ends after at most max_steps model
\* calls and at most max_steps performed actions; a successful action is the
\* last thing the run did; and completed = False is returned only when each
\* of the max_steps steps performed an action that failed.
C35_BoundedModelRun ==
    last.op = "run_task"
        => LET ret == last.ret
           IN  /\ ret.model_calls <= last.max_steps
               /\ Len(ret.taken) <= last.max_steps
               /\ \A i \in 1..Len(ret.taken) :
                      ret.taken[i].success
                          => i = Len(ret.taken) /\ ret.kind = "result"
                             /\ ret.completed
               /\ (ret.kind = "result" /\ ~ret.completed)
                      => /\ Len(ret.taken) = last.max_steps
                         /\ \A i \in 1..Len(ret.taken) : ~ret.taken[i].success

\* The execute of task t returns, or raises, with this step.
ExecuteReturns(t) == agent_result'[t] # agent_result[t] /\ agent_result'[t] # [kind |-> "none"]

\* C36 (successful replay makes no model call and no cache write): an
\* execute that returns the cache-hit result has not called run_task, has
\* written no entry of the agent cache, neither in this step nor before,
\* and reports the actions it read and a usage of zero.
C36_ReplayWithoutModel ==
    [][ \A t \in Tasks :
           (ExecuteReturns(t) /\ agent_result'[t].kind = "cache_hit")
               => /\ agent_result'[t].execute = cur'[t].execute
                  /\ cur'[t].runs = 0
                  /\ agent_cache' = agent_cache
                  /\ \A k \in DOMAIN agent_cache :
                         agent_cache[k].id # cur'[t].execute
                  /\ agent_result'[t].actions = cur'[t].cached_actions[1]
                  /\ agent_result'[t].input_tokens = 0
                  /\ agent_result'[t].output_tokens = 0 ]_vars

\* A replay of three actions that all succeeded returned the cache hit.
C36_Witness ==
    \E t \in Tasks :
        /\ pc[t] = "idle"
        /\ agent_result[t].kind = "cache_hit"
        /\ agent_result[t].execute = cur[t].execute
        /\ Len(replay_log[t]) = 3
        /\ \A i \in 1..3 : replay_log[t][i].outcome = "success"
        /\ cur[t].runs = 0

\* C37 (action construction fails closed): for a persisted action whose tag
\* is not a known one or whose fields do not fit,
\* _create_agent_action_from_dict returns None; for a known tag with fitting
\* fields it returns an action of that type; it returns in every case.
C37_ConstructionFailsClosed ==
    last.op = "create_agent_action_from_dict"
        => LET action_dict == last.action_dict
               known == /\ "type" \in DOMAIN action_dict
                        /\ action_dict.type \in KnownActionTypes
           IN  /\ (known /\ action_dict.fits)
                      => last.ret = Some([action_type |-> action_dict.type])
               /\ ~(known /\ action_dict.fits) => last.ret = None

\* A known tag whose fields do not fit gave None.
C37_Witness ==
    /\ last.op = "create_agent_action_from_dict"
    /\ last.action_dict = ActionDict("key_press", FALSE)
    /\ last.ret = None

====
